---- MODULE Spec2Model ----
(***************************************************************************)
(* Reconciliation of a Nextflow Tower organization against per-project     *)
(* configuration: bin/configure-tower-projects.py and the older            *)
(* bin/configure-tower-project.py.  The remote control plane is the record *)
(* `tower`; every request a script issues is appended to `log`.  One       *)
(* action models one method called from TowerOrganization.__init__ /       *)
(* TowerWorkspace.__init__, or from TowerConfigurator.configure.            *)
(***************************************************************************)
EXTENDS Integers, Sequences, FiniteSets, TLC

VARIABLES
    tower,        \* state of the remote control plane
    log,          \* requests issued so far, in order
    dry_run,      \* args.dry_run of main
    filenames,    \* the files of args.projects_dir, in the order of os.walk
    stdout,       \* the paths main has printed
    environ,      \* os.environ
    tower_token,  \* the token of the client, NoToken before it is read
    configs,      \* the parsed project files of main's run, <<>> where a
                  \* Projects object is handed to TowerOrganization directly
    projects,     \* Projects: sequence of [name, users, tags]
    use_teams,    \* TowerOrganization.use_teams
    org_id,       \* TowerOrganization.id
    members,      \* TowerOrganization.members: email -> member
    teamids,      \* TowerOrganization.teamids_per_project: name -> <<team id, role>>*
    member_ids,   \* TowerConfigurator.member_ids: stack name -> group -> member ids
    cur,          \* index in projects of the workspace being built
    ws_id,        \* TowerWorkspace.id of that workspace
    ce_ids,       \* last value returned by create_compute_environment
    workspaces,   \* TowerOrganization.workspaces: name -> [id, ce_ids]
    first,        \* in a second run of main: what the first run left
    before,       \* the control plane when the last step started
    mark,         \* length of log when the last step started
    step,         \* the last step taken
    err,          \* exception that ended the run, or "none"
    pc,           \* position of the run
    runs          \* two runs of main against one organization, or <<>>

vars == <<tower, log, dry_run, filenames, stdout, environ, tower_token, configs, projects,
          use_teams, org_id, members, teamids, member_ids,
          cur, ws_id, ce_ids, workspaces, first, before, mark, step, err, pc, runs>>

----------------------------------------------------------------------------
(* Constants of the script *)

CE_VERSION == "v12"
ORG_NAME == "Sage Bionetworks"
\* Python's None where an identifier is expected; real identifiers are >= 1
None == 0

\* os.environ with and without the token of the control plane, and the
\* token of a client that has read none
TokenSet == [k \in {"NXF_TOWER_TOKEN"} |-> "token"]
TokenUnset == [k \in {} |-> ""]
NoToken == ""

role_mapping ==
    << <<"owners", "owner">>, <<"admins", "admin">>, <<"maintainers", "maintain">>,
       <<"launchers", "launch">>, <<"viewers", "view">> >>

launcher_roles == {"owner", "admin", "maintain", "launch"}

----------------------------------------------------------------------------
(* Sequences *)

Range(s) == {s[i] : i \in DOMAIN s}

RECURSIVE Concat(_)
Concat(ss) == IF ss = <<>> THEN <<>> ELSE Head(ss) \o Concat(Tail(ss))

\* Python dict assignment d[k] = v on a dict kept as a sequence of <<k, v>>
DictSet(d, k, v) ==
    IF \E i \in DOMAIN d : d[i][1] = k
    THEN [i \in DOMAIN d |-> IF d[i][1] = k THEN <<k, v>> ELSE d[i]]
    ELSE Append(d, <<k, v>>)

----------------------------------------------------------------------------
(* Strings.  `x in y` and y.endswith(x) are decided by decomposing y over   *)
(* the finite sets of prefixes and suffixes that occur in the model.        *)

Prefixes ==
    {"", "jo", "User 'ann' is ", "User 'joann' is ", "User 'bob' is ",
     "User 'cy' is ", "User 'dee' is ", "User 'svc' is ",
     "The member is ", "Compute environment ",
     "foo-project-spot-", "foo-project-ondemand-", "bar-project-spot-",
     "bar-project-ondemand-", "baz-project-spot-", "baz-project-ondemand-"}

Suffixes == {"", " a member", " associated with the team", " and cannot be deleted"}

\* Python: sub in text
In(sub, text) == \E a \in Prefixes, b \in Suffixes : text = a \o sub \o b

\* Python: text.endswith(sub)
endswith(text, sub) == \E a \in Prefixes : text = a \o sub

\* Python: project_name[:-8], which trims the '-project' suffix
TrimProjectSuffix(project_name) ==
    CASE project_name = "foo-project" -> "foo"
      [] project_name = "bar-project" -> "bar"
      [] project_name = "baz-project" -> "baz"
      [] OTHER -> ""

\* the characters of the names that occur
Spell(text) ==
    CASE text = "Sage Bionetworks" ->
             <<"S", "a", "g", "e", " ", "B", "i", "o", "n", "e", "t", "w", "o", "r", "k", "s">>
      [] text = "Other Org" ->
             <<"O", "t", "h", "e", "r", " ", "O", "r", "g">>
      [] text = "R&D (test)" ->
             <<"R", "&", "D", " ", "(", "t", "e", "s", "t", ")">>
      [] text = "foo-project" ->
             <<"f", "o", "o", "-", "p", "r", "o", "j", "e", "c", "t">>
      [] text = "bar-project" ->
             <<"b", "a", "r", "-", "p", "r", "o", "j", "e", "c", "t">>
      [] text = "baz-project" ->
             <<"b", "a", "z", "-", "p", "r", "o", "j", "e", "c", "t">>
      [] text = "TowerProject" ->
             <<"T", "o", "w", "e", "r", "P", "r", "o", "j", "e", "c", "t">>
      [] text = "CostCenter" ->
             <<"C", "o", "s", "t", "C", "e", "n", "t", "e", "r">>
      [] text = "Dept / 1234 " ->
             <<"D", "e", "p", "t", " ", "/", " ", "1", "2", "3", "4", " ">>
      [] text = "Group" ->
             <<"G", "r", "o", "u", "p">>
      [] text = "Cost Center" ->
             <<"C", "o", "s", "t", " ", "C", "e", "n", "t", "e", "r">>
      [] text = "Lab" ->
             <<"L", "a", "b">>
      [] text = "x[1]" ->
             <<"x", "[", "1", "]">>
      [] text = "a-b_c" ->
             <<"a", "-", "b", "_", "c">>
      [] text = "dept/program-42" ->
             <<"d", "e", "p", "t", "/", "p", "r", "o", "g", "r", "a", "m", "-", "4", "2">>
      [] text = "arn:aws:sts::1:assumed-role/dev/ann@x.org" ->
             <<"a", "r", "n", ":", "a", "w", "s", ":", "s", "t", "s", ":",
               ":", "1", ":", "a", "s", "s", "u", "m", "e", "d", "-", "r",
               "o", "l", "e", "/", "d", "e", "v", "/", "a", "n", "n", "@",
               "x", ".", "o", "r", "g">>
      [] text = "arn:aws:sts::1:assumed-role/dev/bob@x.org" ->
             <<"a", "r", "n", ":", "a", "w", "s", ":", "s", "t", "s", ":",
               ":", "1", ":", "a", "s", "s", "u", "m", "e", "d", "-", "r",
               "o", "l", "e", "/", "d", "e", "v", "/", "b", "o", "b", "@",
               "x", ".", "o", "r", "g">>
      [] text = "arn:aws:iam::1:role/dev" ->
             <<"a", "r", "n", ":", "a", "w", "s", ":", "i", "a", "m", ":",
               ":", "1", ":", "r", "o", "l", "e", "/", "d", "e", "v">>
      [] text = "arn:aws:sts::1:assumed-role/dev/cy" ->
             <<"a", "r", "n", ":", "a", "w", "s", ":", "s", "t", "s", ":",
               ":", "1", ":", "a", "s", "s", "u", "m", "e", "d", "-", "r",
               "o", "l", "e", "/", "d", "e", "v", "/", "c", "y">>
      [] text = "arn:aws:sts::1:assumed-role/dev" ->
             <<"a", "r", "n", ":", "a", "w", "s", ":", "s", "t", "s", ":",
               ":", "1", ":", "a", "s", "s", "u", "m", "e", "d", "-", "r",
               "o", "l", "e", "/", "d", "e", "v">>
      [] text = "arn:aws:iam::1:user/dee@x.org" ->
             <<"a", "r", "n", ":", "a", "w", "s", ":", "i", "a", "m", ":",
               ":", "1", ":", "u", "s", "e", "r", "/", "d", "e", "e", "@",
               "x", ".", "o", "r", "g">>
      [] text = "arn:aws:sts::1:assumed-role/dev/ann@x.o|" ->
             <<"a", "r", "n", ":", "a", "w", "s", ":", "s", "t", "s", ":",
               ":", "1", ":", "a", "s", "s", "u", "m", "e", "d", "-", "r",
               "o", "l", "e", "/", "d", "e", "v", "/", "a", "n", "n", "@",
               "x", ".", "o", "|">>
      [] text = "arn:aws:sts::" ->
             <<"a", "r", "n", ":", "a", "w", "s", ":", "s", "t", "s", ":",
               ":">>
      [] text = ":assumed-role/" ->
             <<":", "a", "s", "s", "u", "m", "e", "d", "-", "r", "o", "l",
               "e", "/">>
      [] OTHER -> <<>>

\* the characters of the class [A-Za-z0-9_-]
ValidChars ==
    {"A", "B", "C", "D", "E", "F", "G", "H", "I", "J", "K", "L", "M", "N", "O", "P", "Q",
     "R", "S", "T", "U", "V", "W", "X", "Y", "Z", "a", "b", "c", "d", "e", "f", "g", "h",
     "i", "j", "k", "l", "m", "n", "o", "p", "q", "r", "s", "t", "u", "v", "w", "x", "y",
     "z", "0", "1", "2", "3", "4", "5", "6", "7", "8", "9", "_", "-"}

\* Python: "".join(chars)
RECURSIVE Join(_)
Join(chars) == IF chars = <<>> THEN "" ELSE Head(chars) \o Join(Tail(chars))

\* TowerClient.get_valid_name, re.sub(r"[^A-Za-z0-9_-]", "-", full_name): each
\* character outside the class becomes '-'
get_valid_name(full_name) ==
    Join([i \in DOMAIN Spell(full_name) |->
            IF Spell(full_name)[i] \in ValidChars THEN Spell(full_name)[i] ELSE "-"])

----------------------------------------------------------------------------
(* Requests.  s is the run's state [tower, log, members, teamids, err,      *)
(* token]; an operation returns [s |-> the state after it, ret |-> its      *)
(* return value].                                                           *)

\* auth is the bearer token of the Authorization header, set when the
\* request is sent
Rq(method, path, ws, id, name) ==
    [method |-> method, path |-> path, ws |-> ws, id |-> id, name |-> name,
     reply |-> "", auth |-> ""]

\* the request rq with the message of its response, if the response has one
Replied(rq, response) ==
    [rq EXCEPT !.reply = IF "message" \in DOMAIN response THEN response.message ELSE ""]

\* send_tower_request, kwargs["headers"]: a request to the control plane
\* carries the token of the client
send_tower_request(s, rq) ==
    IF rq.method = "AWS" THEN rq ELSE [rq EXCEPT !.auth = s.token]

\* the request rq has been issued and left the control plane in state t
Issue(s, rq, t) == [s EXCEPT !.tower = t, !.log = Append(@, send_tower_request(s, rq))]

Ok(s, v) == [s |-> s, ret |-> v]

Raise(s, e, v) == [s |-> [s EXCEPT !.err = e], ret |-> v]

NewId(t, kind) == t.seq[kind] + 1

----------------------------------------------------------------------------
(* The control plane: organizations, members, teams *)

UserNameOf(email) ==
    CASE email = "ann@x.org" -> "ann"
      [] email = "joann@x.org" -> "joann"
      [] email = "bob@x.org" -> "bob"
      [] email = "cy@x.org" -> "cy"
      [] email = "dee@x.org" -> "dee"
      [] OTHER -> "svc"

\* the user the API token belongs to: creator of what the run creates
TokenUser == "svc@x.org"

NoMember == [memberId |-> None, email |-> "", userName |-> ""]

\* POST /orgs: the creator becomes the first member of the organization
RemoteCreateOrg(t, data) ==
    LET org == [orgId |-> NewId(t, "org"), fullName |-> data.fullName, name |-> data.name]
        m == [memberId |-> NewId(t, "member"), email |-> TokenUser,
              userName |-> UserNameOf(TokenUser)]
    IN [tower |-> [t EXCEPT !.organizations = Append(@, org),
                            !.members = Append(@, m),
                            !.seq.org = @ + 1, !.seq.member = @ + 1],
        response |-> [organization |-> org]]

\* GET /orgs/{id}/members?search=: members whose email contains the keyword
RemoteSearchMembers(t, search) ==
    SelectSeq(t.members, LAMBDA m : In(search, m.email))

\* PUT /orgs/{id}/members/add
RemoteAddMember(t, user) ==
    LET old == SelectSeq(t.members, LAMBDA m : m.email = user)
        m == [memberId |-> NewId(t, "member"), email |-> user,
              userName |-> UserNameOf(user)]
    IN IF old # <<>>
       THEN [tower |-> t,
             response |-> [message |-> "User '" \o old[1].userName
                                        \o "' is already a member"]]
       ELSE [tower |-> [t EXCEPT !.members = Append(@, m), !.seq.member = @ + 1],
             response |-> [member |-> m]]

\* POST /orgs/{id}/teams
RemoteCreateTeam(t, team_name) ==
    LET team == [teamId |-> NewId(t, "team"), name |-> team_name]
    IN [tower |-> [t EXCEPT !.teams = Append(@, team), !.seq.team = @ + 1],
        response |-> [team |-> team]]

\* POST /orgs/{id}/teams/{team}/members; the user becomes a member of the
\* organization when it is none yet
RemoteAddTeamMember(t, team_id, user) ==
    LET a == RemoteAddMember(t, user)
        m == IF "member" \in DOMAIN a.response
             THEN a.response.member
             ELSE SelectSeq(t.members, LAMBDA x : x.email = user)[1]
        tm == [teamId |-> team_id, memberId |-> m.memberId]
    IN IF tm \in Range(t.teamMembers)
       THEN [tower |-> t,
             response |-> [message |-> "The member is already associated with the team"]]
       ELSE [tower |-> [a.tower EXCEPT !.teamMembers = Append(@, tm)],
             response |-> [member |-> m]]

\* DELETE /orgs/{id}/teams/{team}/members/{member}/delete
RemoteRemoveTeamMember(t, team_id, member_id) ==
    [tower |-> [t EXCEPT !.teamMembers =
                    SelectSeq(@, LAMBDA x : ~(x.teamId = team_id /\ x.memberId = member_id))],
     response |-> [x \in {} |-> 0]]

----------------------------------------------------------------------------
(* class Users *)

Users(owners, admins, maintainers, launchers, viewers) ==
    [owners |-> owners, admins |-> admins, maintainers |-> maintainers,
     launchers |-> launchers, viewers |-> viewers]

\* Users.__init__ called with the keyword arguments kwargs: a bucket that is
\* not given is the default, []
Users_init(kwargs) ==
    [g \in {"owners", "admins", "maintainers", "launchers", "viewers"} |->
       IF g \in DOMAIN kwargs THEN kwargs[g] ELSE <<>>]

\* Users.list_users leaving out the last bucket
list_users_but_viewers(users) ==
    Concat([g \in 1 .. Len(role_mapping) - 1 |->
              [i \in DOMAIN users[role_mapping[g][1]] |->
                 <<users[role_mapping[g][1]][i], role_mapping[g][1], role_mapping[g][2]>>]])

\* Users.list_users: <<user, user_group, role>> in the order of role_mapping
list_users(users) ==
    Concat([g \in DOMAIN role_mapping |->
              [i \in DOMAIN users[role_mapping[g][1]] |->
                 <<users[role_mapping[g][1]][i], role_mapping[g][1], role_mapping[g][2]>>]])

\* Users.list_teams: <<users, user_group, role>> for every bucket that has a
\* user (the defaultdict gets a key only when a user is appended)
list_teams(users) ==
    LET all == [g \in DOMAIN role_mapping |->
                  <<users[role_mapping[g][1]], role_mapping[g][1], role_mapping[g][2]>>]
    IN SelectSeq(all, LAMBDA team : team[1] # <<>>)

----------------------------------------------------------------------------
(* class Projects.  A config is a parsed YAML file, a record that has only  *)
(* the keys the file has; stack_tags is a dict kept as a sequence of        *)
(* <<key, value>>.                                                          *)

\* Projects.validate_config: "none" when it returns, or the exception raised
validate_config(config) ==
    IF "stack_name" \notin DOMAIN config THEN "InvalidTowerProject"
    ELSE IF "template" \notin DOMAIN config THEN "InvalidTowerProject"
    ELSE IF "path" \notin DOMAIN config.template THEN "KeyError"
    ELSE IF config.template.path # "tower-project.j2" THEN "InvalidTowerProject"
    ELSE IF "parameters" \notin DOMAIN config THEN "InvalidTowerProject"
    ELSE IF \/ "S3ReadWriteAccessArns" \in DOMAIN config.parameters
            \/ "S3ReadOnlyAccessArns" \in DOMAIN config.parameters
         THEN "none"
         ELSE "InvalidTowerProject"

\* text.rpartition(sep)[2]
rpartition(chars, sep) ==
    LET at == {i \in DOMAIN chars : chars[i] = sep}
    IN IF at = {} THEN chars
       ELSE SubSeq(chars, (CHOOSE i \in at : \A j \in at : j <= i) + 1, Len(chars))

Digits == {"0", "1", "2", "3", "4", "5", "6", "7", "8", "9"}

Letters == ValidChars \ (Digits \cup {"_", "-"})

\* the whole of chars matches the group session_name of the two scripts,
\* [A-Za-z0-9._%+-]+@[A-Za-z0-9.-]+\.[A-Z|a-z]{2,}: a is the place of the @
\* and d that of the dot before the last part
session_name_fullmatch(chars) ==
    \E a, d \in DOMAIN chars :
        /\ 1 < a
        /\ a + 1 < d
        /\ d + 2 <= Len(chars)
        /\ chars[a] = "@"
        /\ chars[d] = "."
        /\ \A i \in 1 .. a - 1 : chars[i] \in Letters \cup Digits \cup {".", "_", "%", "+", "-"}
        /\ \A i \in a + 1 .. d - 1 : chars[i] \in Letters \cup Digits \cup {".", "-"}
        /\ \A i \in d + 1 .. Len(chars) : chars[i] \in Letters \cup {"|"}

\* role_arn_regex.fullmatch(arn).group("session_name") of extract_emails,
\* "" where there is no match: the regex is .*/ and then the group, which
\* holds no '/', so that the group is what follows the last '/'
session_name(arn) ==
    IF /\ "/" \in Range(Spell(arn))
       /\ session_name_fullmatch(rpartition(Spell(arn), "/"))
    THEN Join(rpartition(Spell(arn), "/"))
    ELSE ""

\* Projects.extract_emails up to list(emails): the set of the emails
extract_emails(arns) ==
    {session_name(arns[i]) : i \in {j \in DOMAIN arns : session_name(arns[j]) # ""}}

\* extract_emails_from_arns of the older script: the regex is
\* arn:aws:sts::[0-9]+:assumed-role/[^/]+/ and then the group; the emails
\* are appended to a list
extract_emails_from_arns(arns) ==
    LET fullmatch(chars) ==
            \E p, q \in DOMAIN chars :
                /\ 14 < p
                /\ p + 14 < q
                /\ SubSeq(chars, 1, 13) = Spell("arn:aws:sts::")
                /\ \A i \in 14 .. p - 1 : chars[i] \in Digits
                /\ SubSeq(chars, p, p + 13) = Spell(":assumed-role/")
                /\ \A i \in p + 14 .. q - 1 : chars[i] # "/"
                /\ chars[q] = "/"
                /\ session_name_fullmatch(SubSeq(chars, q + 1, Len(chars)))
        matched == SelectSeq(arns, LAMBDA arn : fullmatch(Spell(arn)))
    IN [i \in DOMAIN matched |-> Join(rpartition(Spell(matched[i]), "/"))]

\* list(emails): a list of the members of the set, in any order
ListOf(emails) ==
    {l \in [1 .. Cardinality(emails) -> emails] : Range(l) = emails}

\* Projects.extract_users for one config: the Users it may store
extract_users(config) ==
    LET maintainer_arns == IF "S3ReadWriteAccessArns" \in DOMAIN config.parameters
                           THEN config.parameters.S3ReadWriteAccessArns ELSE <<>>
        viewer_arns == IF "S3ReadOnlyAccessArns" \in DOMAIN config.parameters
                       THEN config.parameters.S3ReadOnlyAccessArns ELSE <<>>
    IN {Users(<<>>, <<>>, maintainers, <<>>, viewers) :
          maintainers \in ListOf(extract_emails(maintainer_arns)),
          viewers \in ListOf(extract_emails(viewer_arns))}

\* the characters of the class [A-z0-9_-]: the range A-z also holds the
\* characters between Z and a (of these the grave accent, which no text
\* here holds, is left out)
TagChars == ValidChars \cup {"[", "\\", "]", "^"}

\* invalid_chars.sub("_", text) on the characters of text: each run of
\* characters outside the class becomes one underscore
RECURSIVE invalid_chars_sub(_, _)
invalid_chars_sub(chars, in_run) ==
    IF chars = <<>> THEN <<>>
    ELSE IF Head(chars) \in TagChars
         THEN <<Head(chars)>> \o invalid_chars_sub(Tail(chars), FALSE)
         ELSE (IF in_run THEN <<>> ELSE <<"_">>) \o invalid_chars_sub(Tail(chars), TRUE)

\* text.strip()
strip(chars) ==
    LET inked == {i \in DOMAIN chars : chars[i] # " "}
    IN IF inked = {} THEN <<>>
       ELSE SubSeq(chars, CHOOSE i \in inked : \A j \in inked : i <= j,
                   CHOOSE i \in inked : \A j \in inked : j <= i)

\* extract_tags, "for key in original_keys": the values are kept by their
\* characters
RECURSIVE sanitize_tags(_, _)
sanitize_tags(original_keys, stack_tags) ==
    IF original_keys = <<>>
    THEN stack_tags
    ELSE LET key == Head(original_keys)
             val == stack_tags[CHOOSE i \in DOMAIN stack_tags : stack_tags[i][1] = key][2]
             popped == SelectSeq(stack_tags, LAMBDA kv : kv[1] # key)
             new_key == Join(invalid_chars_sub(Spell(key), FALSE))
             new_val == invalid_chars_sub(val, FALSE)
         IN sanitize_tags(Tail(original_keys), DictSet(popped, new_key, new_val))

\* Projects.extract_tags for one config
extract_tags(config) ==
    LET given == IF "stack_tags" \in DOMAIN config THEN config.stack_tags ELSE <<>>
        stack_tags == DictSet([i \in DOMAIN given |-> <<given[i][1], Spell(given[i][2])>>],
                              "TowerProject", Spell(config.stack_name))
        trimmed == [i \in DOMAIN stack_tags |->
                      IF stack_tags[i][1] = "CostCenter"
                      THEN <<"CostCenter", strip(rpartition(stack_tags[i][2], "/"))>>
                      ELSE stack_tags[i]]
        clean == sanitize_tags([i \in DOMAIN trimmed |-> trimmed[i][1]], trimmed)
    IN [i \in DOMAIN clean |-> <<clean[i][1], Join(clean[i][2])>>]

\* the stems of the file names that occur
FileStems == {"", "foo", "bar", "baz"}

\* Projects.list_projects: the paths of the files whose name ends with
\* "-project.yaml" (config_paths)
list_projects(fs) ==
    LET kept == SelectSeq(fs, LAMBDA filename :
                                \E stem \in FileStems : filename = stem \o "-project.yaml")
    IN [i \in DOMAIN kept |-> "config/" \o kept[i]]

\* main, were it to reconcile in a dry run as well
main_always_reconciles(dry, config_paths) ==
    [stdout |-> IF dry THEN config_paths ELSE <<>>, next |-> "org_create"]

\* main after Projects(args.projects_dir): what it prints and where it
\* goes on
main(dry, config_paths) ==
    IF dry
    THEN [stdout |-> config_paths, next |-> "done"]
    ELSE [stdout |-> <<>>, next |-> "org_create"]

\* Projects.load_projects: the exception of the first config that
\* validate_config rejects, "none" when every config is yielded
load_projects(cfgs) ==
    LET bad == {i \in DOMAIN cfgs : validate_config(cfgs[i]) # "none"}
    IN IF bad = {} THEN "none"
       ELSE validate_config(cfgs[CHOOSE i \in bad : \A j \in bad : i <= j])

\* Projects.__init__ on valid configs: the values users_per_project and
\* tags_per_project may take, as a sequence of [name, users, tags]
RECURSIVE Projects(_)
Projects(cfgs) ==
    IF cfgs = <<>>
    THEN {<<>>}
    ELSE {<<[name |-> Head(cfgs).stack_name, users |-> u, tags |-> extract_tags(Head(cfgs))]>>
            \o rest : u \in extract_users(Head(cfgs)), rest \in Projects(Tail(cfgs))}

----------------------------------------------------------------------------
(* class TowerOrganization *)

\* TowerOrganization.create without the lookup: an organization is created at
\* every call
org_create_always(s, full_name) ==
    LET s1 == Issue(s, Rq("GET", "/orgs", None, None, ""), s.tower)
        data == [name |-> get_valid_name(full_name), fullName |-> full_name]
        r == RemoteCreateOrg(s1.tower, data)
    IN Ok(Issue(s1, Rq("POST", "/orgs", None, None, full_name), r.tower),
          r.response.organization)

\* TowerOrganization.create
org_create(s, full_name) ==
    LET s1 == Issue(s, Rq("GET", "/orgs", None, None, ""), s.tower)
        found == SelectSeq(s.tower.organizations, LAMBDA org : org.fullName = full_name)
        data == [name |-> get_valid_name(full_name), fullName |-> full_name]
        r == RemoteCreateOrg(s1.tower, data)
    IN IF found # <<>>
       THEN Ok(s1, found[1])
       ELSE Ok(Issue(s1, Rq("POST", "/orgs", None, None, full_name), r.tower),
               r.response.organization)

\* TowerOrganization.add_member
add_member(s, user) ==
    LET matches == RemoteSearchMembers(s.tower, user)
        s1 == Issue(s, Rq("GET", "/orgs/members", None, None, user), s.tower)
        r == RemoteAddMember(s1.tower, user)
        s2 == Issue(s1, Replied(Rq("PUT", "/orgs/members/add", None, None, user),
                                r.response), r.tower)
    IN IF Len(matches) = 1 /\ matches[1].email = user
       THEN Ok([s1 EXCEPT !.members = (user :> matches[1]) @@ @], matches[1])
       ELSE IF "member" \in DOMAIN r.response
       THEN Ok([s2 EXCEPT !.members = (user :> r.response.member) @@ @],
               r.response.member)
       ELSE Raise(s2, "KeyError", NoMember)

\* TowerOrganization.add_member_to_team
add_member_to_team(s, team_id, user) ==
    LET r == RemoteAddTeamMember(s.tower, team_id, user)
        s1 == Issue(s, Replied(Rq("POST", "/orgs/teams/members", None, team_id, user),
                               r.response), r.tower)
        a == add_member(s1, user)
    IN IF "message" \in DOMAIN r.response /\ In("already", r.response.message)
       THEN Ok(a.s, a.ret.memberId)
       ELSE IF "member" \in DOMAIN r.response
       THEN Ok(s1, r.response.member.memberId)
       ELSE Raise(s1, "KeyError", None)

\* TowerOrganization.remove_member_from_team
remove_member_from_team(s, team_id, member_id) ==
    LET r == RemoteRemoveTeamMember(s.tower, team_id, member_id)
    IN Ok(Issue(s, Rq("DELETE", "/orgs/teams/members/delete", None, team_id, ""), r.tower),
          r.response)

\* TowerOrganization.create_team
create_team(s, team_name) ==
    LET s1 == Issue(s, Rq("GET", "/orgs/teams", None, None, ""), s.tower)
        found == SelectSeq(s.tower.teams, LAMBDA team : team.name = team_name)
        r == RemoteCreateTeam(s1.tower, team_name)
    IN IF found # <<>>
       THEN Ok(s1, found[1].teamId)
       ELSE Ok(Issue(s1, Rq("POST", "/orgs/teams", None, None, team_name), r.tower),
               r.response.team.teamId)

\* TowerOrganization.list_team_members
list_team_members(s, team_id) ==
    LET of_team == SelectSeq(s.tower.teamMembers, LAMBDA x : x.teamId = team_id)
    IN Ok(Issue(s, Rq("GET", "/orgs/teams/members", None, team_id, ""), s.tower),
          [i \in DOMAIN of_team |-> of_team[i].memberId])

\* populate, "for user in users": returns verified_ids
RECURSIVE populate_users(_, _, _, _)
populate_users(s, users, team_id, verified_ids) ==
    IF users = <<>> \/ s.err # "none"
    THEN Ok(s, verified_ids)
    ELSE LET a == add_member(s, Head(users))
             b == IF use_teams /\ a.s.err = "none"
                  THEN add_member_to_team(a.s, team_id, Head(users))
                  ELSE Ok(a.s, None)
         IN populate_users(b.s, Tail(users), team_id, verified_ids \cup {a.ret.memberId})

\* populate, "for team_member_id in self.list_team_members(team_id)"
RECURSIVE populate_remove(_, _, _, _)
populate_remove(s, team_member_ids, team_id, verified_ids) ==
    IF team_member_ids = <<>> \/ s.err # "none"
    THEN Ok(s, None)
    ELSE populate_remove(
             IF Head(team_member_ids) \notin verified_ids
             THEN remove_member_from_team(s, team_id, Head(team_member_ids)).s
             ELSE s,
             Tail(team_member_ids), team_id, verified_ids)

\* populate, body of "for users, user_group, role in project_users.list_teams()"
populate_team(s, project_name, team) ==
    LET team_name == TrimProjectSuffix(project_name) \o "-" \o team[2]
        c == IF use_teams THEN create_team(s, team_name) ELSE Ok(s, None)
        s1 == IF use_teams
              THEN [c.s EXCEPT !.teamids[project_name] = DictSet(@, c.ret, team[3])]
              ELSE c.s
        u == populate_users(s1, team[1], c.ret, {})
        l == list_team_members(u.s, c.ret)
    IN IF use_teams /\ u.s.err = "none"
       THEN populate_remove(l.s, l.ret, c.ret, u.ret)
       ELSE Ok(u.s, None)

RECURSIVE populate_teams(_, _, _)
populate_teams(s, project_name, teams) ==
    IF teams = <<>> \/ s.err # "none"
    THEN Ok(s, None)
    ELSE populate_teams(populate_team(s, project_name, Head(teams)).s,
                        project_name, Tail(teams))

\* TowerOrganization.populate, over the projects ps
RECURSIVE org_populate(_, _)
org_populate(s, ps) ==
    IF ps = <<>> \/ s.err # "none"
    THEN Ok(s, None)
    ELSE org_populate(
             populate_teams([s EXCEPT !.teamids = (Head(ps).name :> <<>>) @@ @],
                            Head(ps).name, list_teams(Head(ps).users)).s,
             Tail(ps))

----------------------------------------------------------------------------
(* The control plane: workspaces and participants *)

OfWorkspace(seq, ws) == SelectSeq(seq, LAMBDA x : x.wsId = ws)

NoParticipant ==
    [wsId |-> None, participantId |-> None, memberId |-> None, teamId |-> None,
     wspRole |-> ""]

\* POST /orgs/{id}/workspaces: the creator becomes owner of the workspace
RemoteCreateWorkspace(t, data) ==
    LET ws == [id |-> NewId(t, "ws"), name |-> data.name, fullName |-> data.fullName]
        creator == SelectSeq(t.members, LAMBDA m : m.email = TokenUser)[1]
        part == [wsId |-> ws.id, participantId |-> NewId(t, "part"),
                 memberId |-> creator.memberId, teamId |-> None, wspRole |-> "owner"]
    IN [tower |-> [t EXCEPT !.workspaces = Append(@, ws),
                            !.participants = Append(@, part),
                            !.seq.ws = @ + 1, !.seq.part = @ + 1],
        response |-> [workspace |-> ws]]

\* PUT /orgs/{id}/workspaces/{ws}/participants/add: a member or team takes part
\* in a workspace once; a new participant starts with role launch
RemoteAddParticipant(t, ws, data) ==
    LET part == [wsId |-> ws, participantId |-> NewId(t, "part"),
                 memberId |-> data.memberId, teamId |-> data.teamId,
                 wspRole |-> "launch"]
        taken == \E p \in Range(OfWorkspace(t.participants, ws)) :
                    \/ data.memberId # None /\ p.memberId = data.memberId
                    \/ data.teamId # None /\ p.teamId = data.teamId
    IN IF taken
       THEN [tower |-> t, response |-> [message |-> "Already a participant"]]
       ELSE [tower |-> [t EXCEPT !.participants = Append(@, part), !.seq.part = @ + 1],
             response |-> [participant |-> part]]

\* PUT /orgs/{id}/workspaces/{ws}/participants/{part}/role
RemoteSetRole(t, ws, part_id, role) ==
    [tower |-> [t EXCEPT !.participants =
                    [i \in DOMAIN @ |->
                       IF @[i].wsId = ws /\ @[i].participantId = part_id
                       THEN [@[i] EXCEPT !.wspRole = role]
                       ELSE @[i]]],
     response |-> [x \in {} |-> 0]]

\* DELETE /orgs/{id}/workspaces/{ws}/participants/{part}
RemoteRemoveParticipant(t, ws, part_id) ==
    [tower |-> [t EXCEPT !.participants =
                    SelectSeq(@, LAMBDA p : ~(p.wsId = ws /\ p.participantId = part_id))],
     response |-> [x \in {} |-> 0]]

----------------------------------------------------------------------------
(* class TowerWorkspace: workspace and participants.  self is the record    *)
(* [id, stack_name, name, users, teams, tags]; users is <<>> for None and   *)
(* <<u>> for the Users u, teams is a sequence of <<team id, role>>.         *)

\* has_launchers gone wrong: every workspace is taken to have a launcher
has_launchers_always(self) == TRUE

\* TowerWorkspace.has_launchers
has_launchers(self) ==
    \/ /\ self.users # <<>>
       /\ \E i \in DOMAIN list_users(self.users[1]) :
             list_users(self.users[1])[i][3] \in launcher_roles
    \/ /\ self.teams # <<>>
       /\ \E i \in DOMAIN self.teams : self.teams[i][2] \in launcher_roles

\* TowerWorkspace.create without the lookup: a workspace is created at every
\* call
ws_create_always(s, name, full_name) ==
    LET s1 == Issue(s, Rq("GET", "/orgs/workspaces", None, None, ""), s.tower)
        r == RemoteCreateWorkspace(s1.tower, [name |-> name, fullName |-> full_name])
    IN Ok(Issue(s1, Rq("POST", "/orgs/workspaces", None, None, name), r.tower),
          r.response.workspace)

\* TowerWorkspace.create
ws_create(s, name, full_name) ==
    LET s1 == Issue(s, Rq("GET", "/orgs/workspaces", None, None, ""), s.tower)
        found == SelectSeq(s.tower.workspaces, LAMBDA w : w.name = name)
        r == RemoteCreateWorkspace(s1.tower, [name |-> name, fullName |-> full_name])
    IN IF found # <<>>
       THEN Ok(s1, found[1])
       ELSE Ok(Issue(s1, Rq("POST", "/orgs/workspaces", None, None, name), r.tower),
               r.response.workspace)

\* TowerWorkspace.set_participant_role left out
set_participant_role_skipped(s, self, part_id, role) == Ok(s, None)

\* TowerWorkspace.set_participant_role
set_participant_role(s, self, part_id, role) ==
    LET r == RemoteSetRole(s.tower, self.id, part_id, role)
    IN Ok(Issue(s, Rq("PUT", "/participants/role", self.id, part_id, role), r.tower), None)

\* TowerWorkspace.add_participant; user = "" and team_id = None stand for None
add_participant(s, self, role, user, team_id) ==
    LET identifier == IF user # "" THEN s.members[user].memberId ELSE team_id
        data == IF user # ""
                THEN [memberId |-> identifier, teamId |-> None]
                ELSE [memberId |-> None, teamId |-> identifier]
        s1 == Issue(s, Rq("GET", "/participants", self.id, None, ""), s.tower)
        matches == SelectSeq(OfWorkspace(s.tower.participants, self.id),
                             LAMBDA p : p.teamId = identifier \/ p.memberId = identifier)
        r == RemoteAddParticipant(s1.tower, self.id, data)
        s2 == Issue(s1, Replied(Rq("PUT", "/participants/add", self.id, identifier, user),
                                r.response), r.tower)
    IN IF user = "" /\ team_id = None
       THEN Raise(s, "ValueError", NoParticipant)
       ELSE IF Len(matches) = 1
       THEN Ok(set_participant_role(s1, self, matches[1].participantId, role).s,
               matches[1])
       ELSE IF "participant" \in DOMAIN r.response
       THEN Ok(set_participant_role(s2, self, r.response.participant.participantId,
                                    role).s,
               r.response.participant)
       ELSE Raise(s2, "KeyError", NoParticipant)

\* TowerWorkspace.remove_participant
remove_participant(s, self, part_id) ==
    LET r == RemoteRemoveParticipant(s.tower, self.id, part_id)
    IN Ok(Issue(s, Rq("DELETE", "/participants", self.id, part_id, ""), r.tower),
          r.response)

\* TowerWorkspace.list_participants
list_participants(s, self) ==
    Ok(Issue(s, Rq("GET", "/participants", self.id, None, ""), s.tower),
       OfWorkspace(s.tower.participants, self.id))

\* TowerWorkspace.list_owner_participant_ids
list_owner_participant_ids(s, self) ==
    LET l == list_participants(s, self)
    IN Ok(l.s, {l.ret[i].participantId :
                   i \in {j \in DOMAIN l.ret : l.ret[j].wspRole = "owner"}})

\* populate, "for user, _, role in self.users.list_users()": returns verified_ids
RECURSIVE populate_add_users(_, _, _, _)
populate_add_users(s, self, user_roles, verified_ids) ==
    IF user_roles = <<>> \/ s.err # "none"
    THEN Ok(s, verified_ids)
    ELSE LET a == add_participant(s, self, Head(user_roles)[3], Head(user_roles)[1], None)
         IN populate_add_users(a.s, self, Tail(user_roles),
                               verified_ids \cup {a.ret.participantId})

\* populate, "for part in self.list_participants()"
RECURSIVE populate_remove_unexpected(_, _, _, _)
populate_remove_unexpected(s, self, parts, verified_ids) ==
    IF parts = <<>> \/ s.err # "none"
    THEN Ok(s, None)
    ELSE populate_remove_unexpected(
             IF Head(parts).participantId \notin verified_ids
             THEN remove_participant(s, self, Head(parts).participantId).s
             ELSE s,
             self, Tail(parts), verified_ids)

\* populate, "for team_id, role in self.teams.items()"
RECURSIVE populate_add_teams(_, _, _)
populate_add_teams(s, self, teams) ==
    IF teams = <<>> \/ s.err # "none"
    THEN Ok(s, None)
    ELSE populate_add_teams(
             add_participant(s, self, Head(teams)[2], "", Head(teams)[1]).s,
             self, Tail(teams))

\* populate, the branch "if self.users"
populate_from_users(s, self) ==
    LET o == list_owner_participant_ids(s, self)
        a == populate_add_users(o.s, self, list_users(self.users[1]), o.ret)
        l == list_participants(a.s, self)
    IN IF a.s.err # "none"
       THEN Ok(a.s, None)
       ELSE populate_remove_unexpected(l.s, self, l.ret, a.ret)

\* TowerWorkspace.populate
ws_populate(s, self) ==
    LET u == IF self.users # <<>> THEN populate_from_users(s, self) ELSE Ok(s, None)
    IN IF self.teams # <<>> /\ u.s.err = "none"
       THEN populate_add_teams(u.s, self, self.teams)
       ELSE u

----------------------------------------------------------------------------
(* The control plane: credentials, resource labels, compute environments;   *)
(* AWS: stack outputs and secrets                                           *)

\* AwsClient.get_cfn_stack_outputs: the outputs of the stack, by key
get_cfn_stack_outputs(stack_name) ==
    [stack_name |-> stack_name,
     TowerForgeServiceUserAccessKeySecretArn |-> "secret/" \o stack_name,
     TowerForgeServiceRoleArn |-> "role/" \o stack_name,
     TowerScratch |-> "scratch-" \o stack_name,
     TowerBucket |-> "bucket-" \o stack_name,
     VPCId |-> "vpc/" \o stack_name]

\* AwsClient.get_secret_value
get_secret_value(s, secret_arn) ==
    Ok(Issue(s, Rq("AWS", "get_secret_value", None, None, secret_arn), s.tower),
       [aws_access_key_id |-> "key/" \o secret_arn])

\* POST /credentials?workspaceId=
RemoteCreateCredentials(t, ws, data) ==
    LET cred == [wsId |-> ws, id |-> NewId(t, "cred"), name |-> data.name,
                 provider |-> data.provider, deleted |-> FALSE]
    IN [tower |-> [t EXCEPT !.credentials = Append(@, cred), !.seq.cred = @ + 1],
        response |-> [credentialsId |-> cred.id]]

\* POST /labels?workspaceId=
RemoteCreateLabel(t, ws, data) ==
    LET label == [wsId |-> ws, id |-> NewId(t, "label"), name |-> data.name,
                  value |-> data.value]
    IN [tower |-> [t EXCEPT !.labels = Append(@, label), !.seq.label = @ + 1],
        response |-> [id |-> label.id]]

\* POST /compute-envs?workspaceId=: the new environment is being created
RemoteCreateComputeEnv(t, ws, data) ==
    LET ce == [wsId |-> ws, id |-> NewId(t, "ce"), name |-> data.computeEnv.name,
               platform |-> data.computeEnv.platform, status |-> "CREATING",
               credentialsId |-> data.computeEnv.credentialsId,
               type |-> data.computeEnv.config.forge.type,
               labelIds |-> IF "labelIds" \in DOMAIN data THEN data.labelIds ELSE <<>>,
               activeJobs |-> FALSE, primary |-> FALSE]
    IN [tower |-> [t EXCEPT !.computeEnvs = Append(@, ce), !.seq.ce = @ + 1],
        response |-> [computeEnvId |-> ce.id]]

\* POST /compute-envs/{id}/primary?workspaceId=
RemoteSetPrimary(t, ws, compute_env_id) ==
    [tower |-> [t EXCEPT !.computeEnvs =
                    [i \in DOMAIN @ |->
                       IF @[i].wsId = ws
                       THEN [@[i] EXCEPT !.primary = (t.computeEnvs[i].id = compute_env_id)]
                       ELSE @[i]]],
     response |-> [x \in {} |-> 0]]

\* DELETE /compute-envs/{id}?workspaceId=: refused while jobs are running
RemoteDeleteComputeEnv(t, ws, compute_env_id) ==
    LET busy == \E ce \in Range(t.computeEnvs) :
                   ce.wsId = ws /\ ce.id = compute_env_id /\ ce.activeJobs
    IN IF busy
       THEN [tower |-> t,
             response |-> [message |->
                 "Compute environment has active jobs and cannot be deleted"]]
       ELSE [tower |-> [t EXCEPT !.computeEnvs =
                           SelectSeq(@, LAMBDA ce : ~(ce.wsId = ws /\ ce.id = compute_env_id))],
             response |-> [x \in {} |-> 0]]

----------------------------------------------------------------------------
(* class TowerWorkspace: credentials, labels, compute environments *)

\* create_credentials gone wrong: the secret is read before the credentials
\* are looked up
create_credentials_secret_first(s, self) ==
    LET stack == get_cfn_stack_outputs(self.stack_name)
        secret == get_secret_value(s, stack.TowerForgeServiceUserAccessKeySecretArn)
        s1 == Issue(secret.s, Rq("GET", "/credentials", self.id, None, ""), s.tower)
        found == SelectSeq(OfWorkspace(s.tower.credentials, self.id),
                           LAMBDA cred : cred.name = self.stack_name)
        data == [name |-> self.stack_name, provider |-> "aws",
                 accessKey |-> secret.ret.aws_access_key_id,
                 assumeRoleArn |-> stack.TowerForgeServiceRoleArn]
        r == RemoteCreateCredentials(s1.tower, self.id, data)
    IN IF found # <<>>
       THEN IF found[1].provider = "aws" /\ ~found[1].deleted
            THEN Ok(s1, found[1].id)
            ELSE Raise(s1, "AssertionError", None)
       ELSE Ok(Issue(s1, Rq("POST", "/credentials", self.id, None, self.stack_name),
                     r.tower),
               r.response.credentialsId)

\* create_credentials gone wrong: the first credential listed is taken,
\* whatever its name
create_credentials_first_listed(s, self) ==
    LET stack == get_cfn_stack_outputs(self.stack_name)
        s1 == Issue(s, Rq("GET", "/credentials", self.id, None, ""), s.tower)
        found == OfWorkspace(s.tower.credentials, self.id)
        secret == get_secret_value(s1, stack.TowerForgeServiceUserAccessKeySecretArn)
        data == [name |-> self.stack_name, provider |-> "aws",
                 accessKey |-> secret.ret.aws_access_key_id,
                 assumeRoleArn |-> stack.TowerForgeServiceRoleArn]
        r == RemoteCreateCredentials(secret.s.tower, self.id, data)
    IN IF found # <<>>
       THEN IF found[1].provider = "aws" /\ ~found[1].deleted
            THEN Ok(s1, found[1].id)
            ELSE Raise(s1, "AssertionError", None)
       ELSE Ok(Issue(secret.s, Rq("POST", "/credentials", self.id, None, self.stack_name),
                     r.tower),
               r.response.credentialsId)

\* create_credentials without its two assertions: the credential found under
\* the name is returned whatever its provider, deleted or not
create_credentials_unasserted(s, self) ==
    LET stack == get_cfn_stack_outputs(self.stack_name)
        s1 == Issue(s, Rq("GET", "/credentials", self.id, None, ""), s.tower)
        found == SelectSeq(OfWorkspace(s.tower.credentials, self.id),
                           LAMBDA cred : cred.name = self.stack_name)
        secret == get_secret_value(s1, stack.TowerForgeServiceUserAccessKeySecretArn)
        data == [name |-> self.stack_name, provider |-> "aws",
                 accessKey |-> secret.ret.aws_access_key_id,
                 assumeRoleArn |-> stack.TowerForgeServiceRoleArn]
        r == RemoteCreateCredentials(secret.s.tower, self.id, data)
    IN IF found # <<>>
       THEN Ok(s1, found[1].id)
       ELSE Ok(Issue(secret.s, Rq("POST", "/credentials", self.id, None, self.stack_name),
                     r.tower),
               r.response.credentialsId)

\* create_credentials that deletes the credential found under the name and
\* creates it anew
create_credentials_recreate(s, self) ==
    LET gone == [s.tower EXCEPT !.credentials =
                    SelectSeq(@, LAMBDA cred : ~(cred.wsId = self.id
                                                 /\ cred.name = self.stack_name))]
    IN IF gone = s.tower
       THEN create_credentials_unasserted(s, self)
       ELSE create_credentials_unasserted(
                Issue(s, Rq("DELETE", "/credentials", self.id, None, self.stack_name), gone),
                self)

\* TowerWorkspace.create_credentials
create_credentials(s, self) ==
    LET stack == get_cfn_stack_outputs(self.stack_name)
        s1 == Issue(s, Rq("GET", "/credentials", self.id, None, ""), s.tower)
        found == SelectSeq(OfWorkspace(s.tower.credentials, self.id),
                           LAMBDA cred : cred.name = self.stack_name)
        secret == get_secret_value(s1, stack.TowerForgeServiceUserAccessKeySecretArn)
        data == [name |-> self.stack_name, provider |-> "aws",
                 accessKey |-> secret.ret.aws_access_key_id,
                 assumeRoleArn |-> stack.TowerForgeServiceRoleArn]
        r == RemoteCreateCredentials(secret.s.tower, self.id, data)
    IN IF found # <<>>
       THEN IF found[1].provider = "aws" /\ ~found[1].deleted
            THEN Ok(s1, found[1].id)
            ELSE Raise(s1, "AssertionError", None)
       ELSE Ok(Issue(secret.s, Rq("POST", "/credentials", self.id, None, self.stack_name),
                     r.tower),
               r.response.credentialsId)

\* TowerWorkspace.get_resource_label; None when there is not exactly one match
get_resource_label(s, self, name, value) ==
    LET s1 == Issue(s, Rq("GET", "/labels", self.id, None, name), s.tower)
        matches == SelectSeq(OfWorkspace(s.tower.labels, self.id),
                             LAMBDA label : label.name = name /\ label.value = value)
    IN Ok(s1, IF Len(matches) = 1 THEN matches[1].id ELSE None)

\* create_resource_label without the lookup: a label is created at every call
create_resource_label_always(s, self, name, value) ==
    LET r == RemoteCreateLabel(s.tower, self.id, [name |-> name, value |-> value])
    IN Ok(Issue(s, Rq("POST", "/labels", self.id, None, name), r.tower), r.response.id)

\* TowerWorkspace.create_resource_label
create_resource_label(s, self, name, value) ==
    LET g == get_resource_label(s, self, name, value)
        r == RemoteCreateLabel(g.s.tower, self.id, [name |-> name, value |-> value])
    IN IF g.ret # None
       THEN g
       ELSE Ok(Issue(g.s, Rq("POST", "/labels", self.id, None, name), r.tower),
               r.response.id)

\* generate_compute_environment, "for key, value in self.tags.items()"
RECURSIVE generate_label_ids(_, _, _, _)
generate_label_ids(s, self, tags, label_ids) ==
    IF tags = <<>>
    THEN Ok(s, label_ids)
    ELSE LET c == create_resource_label(s, self, Head(tags)[1], Head(tags)[2])
         IN generate_label_ids(c.s, self, Tail(tags), Append(label_ids, c.ret))

\* the request object with the allocation strategy of the on-demand model
\* for both models
ComputeEnvData_best_fit(self, name, model, credentials_id, label_ids) ==
    [labelIds |-> label_ids,
     computeEnv |->
       [name |-> name, platform |-> "aws-batch", credentialsId |-> credentials_id,
        config |->
          [workDir |-> "s3://" \o get_cfn_stack_outputs(self.stack_name).TowerScratch
                       \o "/work",
           resourceLabelIds |-> label_ids,
           forge |-> [allocStrategy |-> "BEST_FIT", type |-> model]]]]

\* the request object generate_compute_environment returns
ComputeEnvData(self, name, model, credentials_id, label_ids) ==
    [labelIds |-> label_ids,
     computeEnv |->
       [name |-> name, platform |-> "aws-batch", credentialsId |-> credentials_id,
        config |->
          [workDir |-> "s3://" \o get_cfn_stack_outputs(self.stack_name).TowerScratch
                       \o "/work",
           resourceLabelIds |-> label_ids,
           forge |-> [allocStrategy |-> IF model = "SPOT" THEN "SPOT_CAPACITY_OPTIMIZED"
                                        ELSE "BEST_FIT",
                      type |-> model]]]]

\* generate_compute_environment once create_credentials has returned c
generate_with_credentials(c, self, name, model) ==
    LET l == generate_label_ids(c.s, self, self.tags, <<>>)
    IN IF c.s.err # "none"
       THEN Ok(c.s, ComputeEnvData(self, name, model, None, <<>>))
       ELSE Ok(l.s, ComputeEnvData(self, name, model, c.ret, l.ret))

\* TowerWorkspace.generate_compute_environment
generate_compute_environment(s, self, name, model) ==
    IF model \notin {"SPOT", "EC2"}
    THEN Raise(s, "AssertionError", ComputeEnvData(self, name, model, None, <<>>))
    ELSE generate_with_credentials(create_credentials(s, self), self, name, model)

\* TowerWorkspace.set_primary_compute_environment
set_primary_compute_environment(s, self, compute_env_id) ==
    LET r == RemoteSetPrimary(s.tower, self.id, compute_env_id)
    IN Ok(Issue(s, Rq("POST", "/compute-envs/primary", self.id, compute_env_id, ""),
                r.tower), None)

\* the DELETE request gone wrong: a response with a message ends the run
delete_compute_environment_fatal(s, self, comp_env) ==
    LET r == RemoteDeleteComputeEnv(s.tower, self.id, comp_env.id)
        s1 == Issue(s, Replied(Rq("DELETE", "/compute-envs", self.id, comp_env.id,
                                  comp_env.name), r.response), r.tower)
    IN IF "message" \in DOMAIN r.response
       THEN Raise(s1, "KeyError", None)
       ELSE Ok(s1, None)

\* cleanup_compute_environments, the DELETE request and the message printed
\* when the response says that the environment has active jobs
delete_compute_environment(s, self, comp_env) ==
    LET r == RemoteDeleteComputeEnv(s.tower, self.id, comp_env.id)
        s1 == Issue(s, Replied(Rq("DELETE", "/compute-envs", self.id, comp_env.id,
                                  comp_env.name), r.response), r.tower)
    IN IF "message" \in DOMAIN r.response /\ In("has active jobs", r.response.message)
       THEN Ok(Issue(s1, Rq("PRINT", "Skipping the deletion", self.id, comp_env.id,
                            comp_env.name), s1.tower), None)
       ELSE Ok(s1, None)

\* the loop of cleanup_compute_environments gone wrong: only the version tag
\* decides, has_launchers is not asked
RECURSIVE cleanup_each_by_tag(_, _, _)
cleanup_each_by_tag(s, self, comp_envs) ==
    IF comp_envs = <<>>
    THEN Ok(s, None)
    ELSE IF endswith(Head(comp_envs).name, CE_VERSION)
    THEN cleanup_each_by_tag(s, self, Tail(comp_envs))
    ELSE cleanup_each_by_tag(delete_compute_environment(s, self, Head(comp_envs)).s,
                             self, Tail(comp_envs))

\* cleanup_compute_environments, "for comp_env in response['computeEnvs']"
RECURSIVE cleanup_each(_, _, _)
cleanup_each(s, self, comp_envs) ==
    IF comp_envs = <<>>
    THEN Ok(s, None)
    ELSE IF endswith(Head(comp_envs).name, CE_VERSION) /\ has_launchers(self)
    THEN cleanup_each(s, self, Tail(comp_envs))
    ELSE cleanup_each(delete_compute_environment(s, self, Head(comp_envs)).s,
                      self, Tail(comp_envs))

\* cleanup_compute_environments gone wrong: every environment listed is
\* deleted, those of the current version too
cleanup_compute_environments_all(s, self) ==
    cleanup_each(Issue(s, Rq("GET", "/compute-envs", self.id, None, ""), s.tower),
                 [self EXCEPT !.users = <<>>, !.teams = <<>>],
                 OfWorkspace(s.tower.computeEnvs, self.id))

\* TowerWorkspace.cleanup_compute_environments
cleanup_compute_environments(s, self) ==
    cleanup_each(Issue(s, Rq("GET", "/compute-envs", self.id, None, ""), s.tower),
                 self, OfWorkspace(s.tower.computeEnvs, self.id))

\* the lookup of create_compute_environment gone wrong: the status of the
\* environment is not looked at
ExistingComputeEnvAnyStatus(comp_envs, name) ==
    LET hits == SelectSeq(comp_envs,
                   LAMBDA ce : ce.platform = "aws-batch" /\ ce.name = name)
    IN IF hits = <<>> THEN None ELSE hits[Len(hits)].id

\* create_compute_environment, "for comp_env in response['computeEnvs']":
\* the last listed match of each name wins
ExistingComputeEnv(comp_envs, name) ==
    LET hits == SelectSeq(comp_envs,
                   LAMBDA ce : /\ ce.platform = "aws-batch"
                               /\ ce.status \in {"AVAILABLE", "CREATING"}
                               /\ ce.name = name)
    IN IF hits = <<>> THEN None ELSE hits[Len(hits)].id

\* create_compute_environment, the request for the environment that
\* generate_compute_environment described in g; is_primary for the SPOT one
post_compute_environment(g, self, is_primary) ==
    LET r == RemoteCreateComputeEnv(g.s.tower, self.id, g.ret)
        s1 == Issue(g.s, Rq("POST", "/compute-envs", self.id, None, g.ret.computeEnv.name),
                    r.tower)
    IN IF g.s.err # "none"
       THEN Ok(g.s, None)
       ELSE IF is_primary
       THEN Ok(set_primary_compute_environment(s1, self, r.response.computeEnvId).s,
               r.response.computeEnvId)
       ELSE Ok(s1, r.response.computeEnvId)

\* create_compute_environment, 'if compute_env_ids["SPOT"] is None'
ensure_spot(s, self, found) ==
    IF found # None
    THEN Ok(s, found)
    ELSE post_compute_environment(
             generate_compute_environment(
                 s, self, self.stack_name \o "-spot-" \o CE_VERSION, "SPOT"),
             self, TRUE)

\* create_compute_environment, 'if compute_env_ids["EC2"] is None'
ensure_ec2(s, self, found) ==
    IF found # None \/ s.err # "none"
    THEN Ok(s, found)
    ELSE post_compute_environment(
             generate_compute_environment(
                 s, self, self.stack_name \o "-ondemand-" \o CE_VERSION, "EC2"),
             self, FALSE)

\* create_compute_environment once the SPOT environment is there (a)
ensure_both(a, self, ec2_found) ==
    LET b == ensure_ec2(a.s, self, ec2_found)
    IN Ok(b.s, [SPOT |-> a.ret, EC2 |-> b.ret])

\* TowerWorkspace.create_compute_environment
create_compute_environment(s, self) ==
    LET listed == OfWorkspace(s.tower.computeEnvs, self.id)
    IN ensure_both(
           ensure_spot(Issue(s, Rq("GET", "/compute-envs", self.id, None, ""), s.tower),
                       self,
                       ExistingComputeEnv(listed, self.stack_name \o "-spot-" \o CE_VERSION)),
           self,
           ExistingComputeEnv(listed, self.stack_name \o "-ondemand-" \o CE_VERSION))

----------------------------------------------------------------------------
(* bin/configure-tower-project.py, the older script: class TowerConfigurator *)

ROLE_MAPPING ==
    [owners |-> "owner", admins |-> "admin", maintainers |-> "maintain",
     launchers |-> "launch", viewers |-> "view"]

UserNames == {"svc", "ann", "bob", "cy", "dee", "joann"}

\* response["message"].split("'")[1] on "User '<username>' is already a member"
SplitQuote(message) ==
    LET hits == {u \in UserNames : message = "User '" \o u \o "' is already a member"}
    IN IF hits = {} THEN "" ELSE CHOOSE u \in hits : TRUE

\* summarize_configs: the maintainers and the viewers of a project
summarize_configs(project) ==
    [maintainers |-> project.users.maintainers, viewers |-> project.users.viewers]

\* TowerConfigurator.__init__, were the token read with os.environ.get
TowerConfigurator_get(s, env) ==
    LET s1 == Issue(s, Rq("AWS", "get_cfn_stack_outputs", None, None,
                          "nextflow-r53-alias-record"), s.tower)
    IN Ok([s1 EXCEPT !.token = IF "NXF_TOWER_TOKEN" \in DOMAIN env
                                THEN env["NXF_TOWER_TOKEN"]
                                ELSE NoToken], None)

\* TowerConfigurator.__init__: the base URL is taken from the outputs of a
\* stack, then the token is read from the environment
TowerConfigurator(s, env) ==
    LET s1 == Issue(s, Rq("AWS", "get_cfn_stack_outputs", None, None,
                          "nextflow-r53-alias-record"), s.tower)
    IN IF "NXF_TOWER_TOKEN" \in DOMAIN env
       THEN Ok([s1 EXCEPT !.token = env["NXF_TOWER_TOKEN"]], None)
       ELSE Raise(s1, "KeyError", None)

\* TowerConfigurator.create_tower_organization
create_tower_organization(s, org_name) ==
    LET s1 == Issue(s, Rq("GET", "/orgs", None, None, ""), s.tower)
        found == SelectSeq(s.tower.organizations, LAMBDA org : org.fullName = org_name)
        data == [name |-> get_valid_name(org_name), fullName |-> org_name]
        r == RemoteCreateOrg(s1.tower, data)
    IN IF found # <<>>
       THEN Ok(s1, found[1].orgId)
       ELSE Ok(Issue(s1, Rq("POST", "/orgs", None, None, org_name), r.tower),
               r.response.organization.orgId)

\* TowerConfigurator.add_organization_member
add_organization_member(s, user) ==
    LET r == RemoteAddMember(s.tower, user)
        s1 == Issue(s, Replied(Rq("PUT", "/orgs/members/add", None, None, user),
                               r.response), r.tower)
        s2 == Issue(s1, Rq("GET", "/orgs/members", None, None, ""), s1.tower)
        found == SelectSeq(s1.tower.members,
                           LAMBDA m : m.userName = SplitQuote(r.response.message))
    IN IF "message" \in DOMAIN r.response /\ In("already a member", r.response.message)
       THEN IF found # <<>>
            THEN Ok(s2, found[1].memberId)
            ELSE Raise(s2, "UnboundLocalError", None)
       ELSE IF "member" \in DOMAIN r.response
       THEN Ok(s1, r.response.member.memberId)
       ELSE Raise(s1, "KeyError", None)

\* populate_tower_organization, "for user in user_list": returns user_id_list
RECURSIVE add_organization_members(_, _, _)
add_organization_members(s, user_list, user_id_list) ==
    IF user_list = <<>> \/ s.err # "none"
    THEN Ok(s, user_id_list)
    ELSE LET a == add_organization_member(s, Head(user_list))
         IN add_organization_members(a.s, Tail(user_list), Append(user_id_list, a.ret))

\* populate_tower_organization, "for user_group, user_list in users.items()",
\* the viewers after the maintainers (m)
populate_viewers(m, users) ==
    LET v == add_organization_members(m.s, users.viewers, <<>>)
    IN Ok(v.s, [maintainers |-> m.ret, viewers |-> v.ret])

\* TowerConfigurator.populate_tower_organization, over the projects ps:
\* returns member_ids
RECURSIVE populate_tower_organization(_, _, _)
populate_tower_organization(s, ps, ids) ==
    IF ps = <<>> \/ s.err # "none"
    THEN Ok(s, ids)
    ELSE LET p == populate_viewers(
                      add_organization_members(
                          s, summarize_configs(Head(ps)).maintainers, <<>>),
                      summarize_configs(Head(ps)))
         IN populate_tower_organization(p.s, Tail(ps), (Head(ps).name :> p.ret) @@ ids)

\* TowerConfigurator.create_tower_workspace
create_tower_workspace(s, stack_name) ==
    LET s1 == Issue(s, Rq("GET", "/orgs/workspaces", None, None, ""), s.tower)
        found == SelectSeq(s.tower.workspaces, LAMBDA w : w.name = stack_name)
        r == RemoteCreateWorkspace(s1.tower, [name |-> stack_name, fullName |-> stack_name])
    IN IF found # <<>>
       THEN Ok(s1, found[1].id)
       ELSE Ok(Issue(s1, Rq("POST", "/orgs/workspaces", None, None, stack_name), r.tower),
               r.response.workspace.id)

\* TowerConfigurator.add_workspace_participant
add_workspace_participant(s, ws, member_id) ==
    LET r == RemoteAddParticipant(s.tower, ws, [memberId |-> member_id, teamId |-> None])
        s1 == Issue(s, Replied(Rq("PUT", "/participants/add", ws, member_id, ""),
                               r.response), r.tower)
        s2 == Issue(s1, Rq("GET", "/participants", ws, None, ""), s1.tower)
        found == SelectSeq(OfWorkspace(s1.tower.participants, ws),
                           LAMBDA p : p.memberId = member_id)
    IN IF "message" \in DOMAIN r.response /\ r.response.message = "Already a participant"
       THEN IF found # <<>>
            THEN Ok(s2, found[1].participantId)
            ELSE Raise(s2, "UnboundLocalError", None)
       ELSE IF "participant" \in DOMAIN r.response
       THEN Ok(s1, r.response.participant.participantId)
       ELSE Raise(s1, "KeyError", None)

\* TowerConfigurator.set_workspace_role
set_workspace_role(s, ws, part_id, role) ==
    LET r == RemoteSetRole(s.tower, ws, part_id, role)
    IN Ok(Issue(s, Rq("PUT", "/participants/role", ws, part_id, role), r.tower), None)

\* populate_tower_workspace, "for member_id in user_list"
RECURSIVE add_workspace_participants(_, _, _, _)
add_workspace_participants(s, ws, user_list, role) ==
    IF user_list = <<>> \/ s.err # "none"
    THEN Ok(s, None)
    ELSE LET a == add_workspace_participant(s, ws, Head(user_list))
         IN add_workspace_participants(
                IF a.s.err = "none"
                THEN set_workspace_role(a.s, ws, a.ret, role).s
                ELSE a.s,
                ws, Tail(user_list), role)

\* TowerConfigurator.populate_tower_workspace; users is member_ids[stack_name]
populate_tower_workspace(s, ws, users) ==
    add_workspace_participants(
        add_workspace_participants(s, ws, users.maintainers,
                                   ROLE_MAPPING["maintainers"]).s,
        ws, users.viewers, ROLE_MAPPING["viewers"])

\* TowerConfigurator.create_tower_credentials
create_tower_credentials(s, project_stack, ws) ==
    LET s1 == Issue(s, Rq("GET", "/credentials", ws, None, ""), s.tower)
        found == SelectSeq(OfWorkspace(s.tower.credentials, ws),
                           LAMBDA cred : cred.name = project_stack.stack_name)
        secret == get_secret_value(s1, project_stack.TowerForgeServiceUserAccessKeySecretArn)
        data == [name |-> project_stack.stack_name, provider |-> "aws",
                 accessKey |-> secret.ret.aws_access_key_id,
                 assumeRoleArn |-> project_stack.TowerForgeServiceRoleArn]
        r == RemoteCreateCredentials(secret.s.tower, ws, data)
    IN IF found # <<>>
       THEN IF found[1].provider = "aws" /\ ~found[1].deleted
            THEN Ok(s1, found[1].id)
            ELSE Raise(s1, "AssertionError", None)
       ELSE Ok(Issue(secret.s, Rq("POST", "/credentials", ws, None,
                                  project_stack.stack_name), r.tower),
               r.response.credentialsId)

\* create_tower_compute_env, the request once create_tower_credentials has
\* returned c
post_tower_compute_env(c, project_stack, vpc_stack, ws) ==
    LET data == [computeEnv |->
                   [name |-> project_stack.stack_name \o " (default)",
                    platform |-> "aws-batch",
                    credentialsId |-> c.ret,
                    config |->
                      [workDir |-> "s3://" \o project_stack.TowerBucket \o "/work",
                       forge |-> [vpcId |-> vpc_stack.VPCId, type |-> "SPOT"]]]]
        r == RemoteCreateComputeEnv(c.s.tower, ws, data)
    IN IF c.s.err # "none"
       THEN Ok(c.s, None)
       ELSE Ok(Issue(c.s, Rq("POST", "/compute-envs", ws, None, data.computeEnv.name),
                     r.tower),
               r.response.computeEnvId)

\* TowerConfigurator.create_tower_compute_env: the first listed match is
\* returned
create_tower_compute_env(s, project_stack, vpc_stack, ws) ==
    LET s1 == Issue(s, Rq("GET", "/compute-envs", ws, None, ""), s.tower)
        hits == SelectSeq(OfWorkspace(s.tower.computeEnvs, ws),
                   LAMBDA ce : /\ ce.name = project_stack.stack_name \o " (default)"
                               /\ ce.platform = "aws-batch"
                               /\ ce.status \in {"AVAILABLE", "CREATING"})
    IN IF hits # <<>>
       THEN Ok(s1, hits[1].id)
       ELSE post_tower_compute_env(create_tower_credentials(s1, project_stack, ws),
                                   project_stack, vpc_stack, ws)

----------------------------------------------------------------------------
(* Bounds and the values the initial states are drawn from *)

\* most projects in the configuration directory
MaxProjects == 2
\* most compute environments a workspace holds before the run
MaxInitEnvs == 2

ProjectNames == <<"foo-project", "bar-project", "baz-project">>

Member(id, email) == [memberId |-> id, email |-> email, userName |-> UserNameOf(email)]

Participant(ws, id, member_id, team_id, role) ==
    [wsId |-> ws, participantId |-> id, memberId |-> member_id, teamId |-> team_id,
     wspRole |-> role]

ComputeEnv(ws, id, name, platform, status, type, jobs) ==
    [wsId |-> ws, id |-> id, name |-> name, platform |-> platform, status |-> status,
     credentialsId |-> 1, type |-> type, labelIds |-> <<>>, activeJobs |-> jobs,
     primary |-> FALSE]

Credential(ws, id, name, provider, deleted) ==
    [wsId |-> ws, id |-> id, name |-> name, provider |-> provider, deleted |-> deleted]

\* the subsequence of s at the positions in keep
Pick(s, keep) == SelectSeq([i \in DOMAIN s |-> <<i, s[i]>>], LAMBDA x : x[1] \in keep)

Picked(s, keep) == [i \in DOMAIN Pick(s, keep) |-> Pick(s, keep)[i][2]]

\* the bucket of role r holding user u when f[u] = r
Bucket(f, us, r) == SelectSeq(us, LAMBDA u : f[u] = r)

UsersOf(f, us) ==
    Users(Bucket(f, us, "owner"), Bucket(f, us, "admin"), Bucket(f, us, "maintain"),
          Bucket(f, us, "launch"), Bucket(f, us, "view"))

RoleChoice == {"", "owner", "admin", "maintain", "launch", "view"}

\* configurations of one project over two users, each in at most one bucket,
\* and one with a user in two buckets
UsersChoices(us) ==
    {UsersOf(f, us) : f \in [Range(us) -> RoleChoice]}
    \cup {Users(<<>>, <<>>, <<us[1]>>, <<>>, <<us[1]>>)}

FewUsersChoices ==
    {Users(<<>>, <<>>, <<"ann@x.org">>, <<>>, <<"bob@x.org">>),
     Users(<<>>, <<>>, <<>>, <<>>, <<"ann@x.org">>),
     Users(<<>>, <<>>, <<"ann@x.org", "joann@x.org">>, <<>>, <<>>),
     Users(<<>>, <<>>, <<>>, <<>>, <<>>)}

Project(name, users) ==
    [name |-> name, users |-> users, tags |-> << <<"TowerProject", name>> >>]

AnnArn == "arn:aws:sts::1:assumed-role/dev/ann@x.org"
BobArn == "arn:aws:sts::1:assumed-role/dev/bob@x.org"
RoleArn == "arn:aws:iam::1:role/dev"

\* ARNs without a domain, without a session name, of a user that is not an
\* assumed role, and with a last part that is not alphabetic
OddArns ==
    [no_domain |-> "arn:aws:sts::1:assumed-role/dev/cy",
     no_session |-> "arn:aws:sts::1:assumed-role/dev",
     user |-> "arn:aws:iam::1:user/dee@x.org",
     bar |-> "arn:aws:sts::1:assumed-role/dev/ann@x.o|"]

\* the lists of ARNs a project file is given for its maintainers
ArnLists ==
    {<<>>, <<AnnArn, BobArn>>, <<BobArn, AnnArn>>, <<AnnArn, AnnArn>>, <<RoleArn>>,
     <<AnnArn, OddArns.no_domain>>, <<OddArns.no_session>>, <<OddArns.user>>,
     <<OddArns.bar>>}

\* the tags a project file is given
TagLists ==
    {<< <<"Cost Center", "a-b_c">> >>,
     << <<"CostCenter", "dept/program-42">>, <<"Lab", "a-b_c">> >>,
     << <<"Lab", "x[1]">> >>,
     << <<"Group", "R&D (test)">> >>}

\* valid project files over those tags
TagConfigs(name) ==
    {[stack_name |-> name, template |-> [path |-> "tower-project.j2"],
      parameters |-> [S3ReadOnlyAccessArns |-> <<BobArn>>],
      stack_tags |-> tags] : tags \in TagLists}

\* valid project files over those lists
ArnConfigs(name) ==
    {[stack_name |-> name, template |-> [path |-> "tower-project.j2"],
      parameters |-> [S3ReadWriteAccessArns |-> arns]] : arns \in ArnLists}

\* project files that validate_config accepts
ValidConfigs(name) ==
    {[stack_name |-> name, template |-> [path |-> "tower-project.j2"],
      parameters |-> [S3ReadWriteAccessArns |-> <<AnnArn>>,
                      S3ReadOnlyAccessArns |-> <<BobArn>>]],
     [stack_name |-> name, template |-> [path |-> "tower-project.j2"],
      parameters |-> [S3ReadWriteAccessArns |-> <<AnnArn, RoleArn, BobArn, AnnArn>>]],
     [stack_name |-> name, template |-> [path |-> "tower-project.j2"],
      parameters |-> [S3ReadOnlyAccessArns |-> <<BobArn>>],
      stack_tags |-> << <<"CostCenter", "Dept / 1234 ">>, <<"Group", "R&D (test)">> >>]}

\* project files that validate_config does not accept
InvalidConfigs(name) ==
    {[template |-> [path |-> "tower-project.j2"],
      parameters |-> [S3ReadWriteAccessArns |-> <<AnnArn>>]],
     [stack_name |-> name,
      parameters |-> [S3ReadWriteAccessArns |-> <<AnnArn>>]],
     [stack_name |-> name, template |-> [type |-> "file"],
      parameters |-> [S3ReadWriteAccessArns |-> <<AnnArn>>]],
     [stack_name |-> name, template |-> [path |-> "vpc.yaml"],
      parameters |-> [S3ReadWriteAccessArns |-> <<AnnArn>>]],
     [stack_name |-> name, template |-> [path |-> "tower-project.j2"]],
     [stack_name |-> name, template |-> [path |-> "tower-project.j2"],
      parameters |-> [VpcName |-> "nextflow-vpc"]]}

ConfigChoices(name) == ValidConfigs(name) \cup InvalidConfigs(name)

\* directories that hold the files of n projects, and one with other files
DirectoryChoices(n) ==
    {[i \in 1 .. n |-> ProjectNames[i] \o ".yaml"],
     <<"ignore.yaml">> \o [i \in 1 .. n |-> ProjectNames[i] \o ".yaml"]
        \o <<"baz-project.txt">>}

\* the projects after the first, with fixed users
OtherProjects(n) ==
    [i \in 1 .. n - 1 |->
       Project(ProjectNames[i + 1],
               Users(<<>>, <<>>, <<"bob@x.org">>, <<>>, <<"ann@x.org">>))]

EmptyTower ==
    [organizations |-> <<>>, members |-> <<>>, teams |-> <<>>, teamMembers |-> <<>>,
     workspaces |-> <<>>, participants |-> <<>>, credentials |-> <<>>,
     computeEnvs |-> <<>>, labels |-> <<>>,
     seq |-> [org |-> 0, member |-> 0, team |-> 0, ws |-> 0, part |-> 0, cred |-> 0,
              ce |-> 0, label |-> 0]]

\* only an organization of another full name exists
OtherOrgTower ==
    [EmptyTower EXCEPT
       !.organizations = <<[orgId |-> 1, fullName |-> "Other Org", name |-> "Other-Org"]>>,
       !.seq.org = 1]

AllMembers ==
    <<Member(1, TokenUser), Member(2, "ann@x.org"), Member(3, "bob@x.org"),
      Member(4, "cy@x.org"), Member(5, "dee@x.org")>>

\* members of which one has an email that contains the email of another
SimilarMembers ==
    <<Member(1, TokenUser), Member(2, "ann@x.org"), Member(3, "bob@x.org"),
      Member(6, "joann@x.org")>>

\* an organization with members and the workspace of the first project,
\* which the token user created
OrgTower(member_list, parts, creds, envs, labels) ==
    [EmptyTower EXCEPT
       !.organizations = <<[orgId |-> 1, fullName |-> ORG_NAME,
                            name |-> get_valid_name(ORG_NAME)]>>,
       !.members = member_list,
       !.workspaces = <<[id |-> 1, name |-> "foo-project", fullName |-> "foo-project"]>>,
       !.participants = <<Participant(1, 1, 1, None, "owner")>> \o parts,
       !.credentials = creds,
       !.computeEnvs = envs,
       !.labels = labels,
       !.seq = [org |-> 1, member |-> 6, team |-> 0, ws |-> 1, part |-> 6, cred |-> 1,
                ce |-> 8, label |-> 2]]

FooCredential == Credential(1, 1, "foo-project", "aws", FALSE)

\* participants the first workspace may hold besides its creator: members
\* ann, bob, cy and a team whose id is, or is not, the id of a member
ParticipantChoices ==
    {a \o b \o c \o t :
       a \in {<<>>, <<Participant(1, 2, 2, None, "view")>>},
       b \in {<<>>, <<Participant(1, 3, 3, None, "maintain")>>,
              <<Participant(1, 3, 3, None, "owner")>>},
       c \in {<<>>, <<Participant(1, 4, 4, None, "owner")>>},
       t \in {<<>>, <<Participant(1, 5, None, 2, "view")>>,
              <<Participant(1, 5, None, 12, "view")>>}}

EnvCandidates ==
    <<ComputeEnv(1, 1, "foo-project-spot-v11", "aws-batch", "AVAILABLE", "SPOT", FALSE),
      ComputeEnv(1, 2, "foo-project-spot-v11", "aws-batch", "AVAILABLE", "SPOT", TRUE),
      ComputeEnv(1, 3, "foo-project-ondemand-v11", "aws-batch", "AVAILABLE", "EC2", FALSE),
      ComputeEnv(1, 4, "foo-project-spot-v12", "aws-batch", "AVAILABLE", "SPOT", FALSE),
      ComputeEnv(1, 5, "foo-project-spot-v12", "aws-batch", "CREATING", "SPOT", TRUE),
      ComputeEnv(1, 6, "foo-project-ondemand-v12", "aws-batch", "AVAILABLE", "EC2", TRUE),
      ComputeEnv(1, 7, "foo-project-ondemand-v12", "aws-batch", "ERRORED", "EC2", FALSE),
      ComputeEnv(1, 8, "foo-project-spot-v12", "local", "AVAILABLE", "SPOT", FALSE)>>

EnvChoices ==
    {Picked(EnvCandidates, keep) :
       keep \in {k \in SUBSET DOMAIN EnvCandidates : Cardinality(k) <= MaxInitEnvs}}

CredentialChoices ==
    {<<>>, <<FooCredential>>,
     <<Credential(1, 1, "foo-project", "google", FALSE)>>,
     <<Credential(1, 1, "foo-project", "aws", TRUE)>>,
     <<Credential(1, 1, "other", "aws", FALSE)>>}

LabelChoices ==
    {<<>>, <<[wsId |-> 1, id |-> 1, name |-> "TowerProject", value |-> "foo-project"]>>}

----------------------------------------------------------------------------
(* Initial states: the configuration and the control plane before the run *)

StartWith(cfgs, t, ps, teams_mode, entry) ==
    /\ tower = t
    /\ log = <<>>
    /\ configs = cfgs
    /\ projects = ps
    /\ use_teams = teams_mode
    /\ org_id = None
    /\ members = <<>>
    /\ teamids = <<>>
    /\ member_ids = <<>>
    /\ cur = 0
    /\ ws_id = None
    /\ ce_ids = [SPOT |-> None, EC2 |-> None]
    /\ workspaces = <<>>
    /\ first = <<>>
    /\ before = t
    /\ mark = 0
    /\ step = "start"
    /\ err = "none"
    /\ pc = entry
    /\ runs = <<>>

\* TowerOrganization, with a client that holds the token of the
\* environment env, or TowerConfigurator is handed the projects ps
StartEnv(env, t, ps, teams_mode, entry) ==
    /\ StartWith(<<>>, t, ps, teams_mode, entry)
    /\ dry_run = FALSE
    /\ filenames = <<>>
    /\ stdout = <<>>
    /\ environ = env
    /\ tower_token = IF entry = "create_tower_organization"
                     THEN NoToken
                     ELSE env["NXF_TOWER_TOKEN"]

Start(t, ps, teams_mode, entry) == StartEnv(TokenSet, t, ps, teams_mode, entry)

\* nothing exists yet; team ids are issued from the range of the member ids
\* or from another one
InitFresh ==
    \E n \in 1 .. MaxProjects, u \in FewUsersChoices, teams_mode \in BOOLEAN,
       team_base \in {0, 10}, t \in {EmptyTower, OtherOrgTower} :
        Start([t EXCEPT !.seq.team = team_base],
              <<Project(ProjectNames[1], u)>> \o OtherProjects(n), teams_mode,
              "org_create")

\* the workspace of the only project exists and has participants
InitParticipants ==
    \E parts \in ParticipantChoices,
       u \in UsersChoices(<<"ann@x.org", "dee@x.org">>), teams_mode \in BOOLEAN :
        Start([OrgTower(AllMembers, parts, <<FooCredential>>, <<>>, <<>>) EXCEPT
                 !.teams = <<[teamId |-> 2, name |-> "alpha"],
                             [teamId |-> 12, name |-> "beta"]>>,
                 !.seq.team = 12],
              <<Project(ProjectNames[1], u)>>, teams_mode, "org_create")

\* the workspace of the first project exists and has credentials, labels and
\* compute environments
InitEnvs ==
    \E n \in 1 .. MaxProjects, u \in FewUsersChoices, teams_mode \in BOOLEAN,
       creds \in CredentialChoices, envs \in EnvChoices, labels \in LabelChoices :
        Start([OrgTower(AllMembers, <<>>, creds, envs, labels) EXCEPT !.seq.team = 10],
              <<Project(ProjectNames[1], u)>> \o OtherProjects(n), teams_mode,
              "org_create")

\* the organization has some of the users as members and a team of the first
\* project with some of them
InitMembers ==
    \E keep \in SUBSET {2, 3, 4}, in_team \in SUBSET {2, 3}, u \in FewUsersChoices,
       teams_mode \in BOOLEAN :
        /\ in_team \subseteq keep
        /\ Start([OrgTower(Picked(SimilarMembers, keep \cup {1}), <<>>, <<FooCredential>>,
                           <<>>, <<>>) EXCEPT
                    !.teams = <<[teamId |-> 11, name |-> "foo-maintainers"]>>,
                    !.teamMembers = [i \in DOMAIN Picked(SimilarMembers, in_team) |->
                                       [teamId |-> 11,
                                        memberId |-> Picked(SimilarMembers, in_team)[i].memberId]],
                    !.seq.team = 11],
                 <<Project(ProjectNames[1], u)>> \o OtherProjects(MaxProjects), teams_mode,
              "org_create")

\* label lists with the project's label listed twice, or only with labels of
\* the same name and another value or of another name
ManyLabelChoices ==
    {<<[wsId |-> 1, id |-> 1, name |-> "TowerProject", value |-> "foo-project"],
       [wsId |-> 1, id |-> 2, name |-> "TowerProject", value |-> "foo-project"]>>,
     <<[wsId |-> 1, id |-> 1, name |-> "TowerProject", value |-> "bar-project"],
       [wsId |-> 1, id |-> 2, name |-> "CostCenter", value |-> "foo-project"]>>}

\* the workspace of the first project exists and has such labels
InitLabels ==
    \E n \in 1 .. MaxProjects, u \in FewUsersChoices, teams_mode \in BOOLEAN,
       labels \in ManyLabelChoices :
        Start([OrgTower(AllMembers, <<>>, <<FooCredential>>, <<>>, labels) EXCEPT
                 !.seq.label = 2],
              <<Project(ProjectNames[1], u)>> \o OtherProjects(n), teams_mode,
              "org_create")

\* compute environments the older script may find in the first workspace
DefaultEnvCandidates ==
    <<ComputeEnv(1, 1, "foo-project (default)", "aws-batch", "ERRORED", "SPOT", FALSE),
      ComputeEnv(1, 2, "foo-project (default)", "aws-batch", "AVAILABLE", "SPOT", FALSE),
      ComputeEnv(1, 3, "foo-project (default)", "aws-batch", "CREATING", "SPOT", FALSE),
      ComputeEnv(1, 4, "foo-project (default)", "local", "AVAILABLE", "SPOT", FALSE)>>

DefaultEnvChoices ==
    {Picked(DefaultEnvCandidates, keep) :
       keep \in {k \in SUBSET DOMAIN DefaultEnvCandidates : Cardinality(k) <= MaxInitEnvs}}

\* the older script starts with nothing there yet
InitConfiguratorFresh ==
    \E n \in 1 .. MaxProjects, u \in FewUsersChoices, t \in {EmptyTower, OtherOrgTower},
       env \in {TokenSet, TokenUnset} :
        StartEnv(env, t, <<Project(ProjectNames[1], u)>> \o OtherProjects(n), FALSE,
                 "create_tower_organization")

\* the older script starts with some members, the workspace of the first
\* project, and in it participants, credentials and compute environments
InitConfigurator ==
    \E n \in 1 .. MaxProjects, u \in FewUsersChoices, keep \in SUBSET {2, 3, 4},
       parts \in {<<>>, <<Participant(1, 2, 2, None, "view")>>},
       creds \in CredentialChoices, envs \in DefaultEnvChoices :
        /\ parts # <<>> => 2 \in keep
        /\ Start(OrgTower(Picked(SimilarMembers, keep \cup {1}), parts, creds, envs, <<>>),
                 <<Project(ProjectNames[1], u)>> \o OtherProjects(n), FALSE,
                 "create_tower_organization")

\* main is run on a directory of project files
InitMain ==
    \E n \in 1 .. MaxProjects, t \in {EmptyTower, OtherOrgTower}, dry \in BOOLEAN :
        \E cfgs \in [1 .. n -> UNION {ConfigChoices(ProjectNames[i]) : i \in 1 .. n}],
           fs \in DirectoryChoices(n) :
            /\ \A i \in 1 .. n : cfgs[i] \in ConfigChoices(ProjectNames[i])
            /\ StartWith(cfgs, t, <<>>, FALSE, "projects")
            /\ dry_run = dry
            /\ filenames = fs
            /\ stdout = <<>>
            /\ environ = TokenSet
            /\ tower_token = TokenSet["NXF_TOWER_TOKEN"]

\* a dry run of main on one project file, over the lists of ARNs and the
\* tags
InitDry ==
    \E cfg \in ArnConfigs(ProjectNames[1]) \cup TagConfigs(ProjectNames[1]),
       fs \in DirectoryChoices(1) :
        /\ StartWith(<<cfg>>, EmptyTower, <<>>, FALSE, "projects")
        /\ dry_run = TRUE
        /\ filenames = fs
        /\ stdout = <<>>
        /\ environ = TokenSet
        /\ tower_token = TokenSet["NXF_TOWER_TOKEN"]

Init ==
    \/ InitMain
    \/ InitDry
    \/ InitFresh
    \/ InitParticipants
    \/ InitEnvs
    \/ InitMembers
    \/ InitLabels
    \/ InitConfiguratorFresh
    \/ InitConfigurator

----------------------------------------------------------------------------
(* The run: TowerOrganization.__init__, and TowerWorkspace.__init__ for     *)
(* each project in turn                                                     *)

S == [tower |-> tower, log |-> log, members |-> members, teamids |-> teamids,
      err |-> err, token |-> tower_token]

\* the step named name ended in state s; the run goes on at next unless an
\* exception was raised
Commit(name, s, next) ==
    /\ tower' = s.tower
    /\ log' = s.log
    /\ members' = s.members
    /\ teamids' = s.teamids
    /\ err' = s.err
    /\ before' = tower
    /\ mark' = Len(log)
    /\ step' = name
    /\ pc' = IF s.err = "none" THEN next ELSE "failed"

\* the TowerWorkspace being built
Self ==
    [id |-> ws_id,
     stack_name |-> projects[cur].name,
     name |-> get_valid_name(projects[cur].name),
     users |-> IF use_teams THEN <<>> ELSE <<projects[cur].users>>,
     teams |-> IF use_teams THEN teamids[projects[cur].name] ELSE <<>>,
     tags |-> projects[cur].tags]

\* main up to TowerClient(): Projects.__init__ reads and validates every
\* project file, in extract_users and once more in extract_tags
LoadProjects ==
    /\ pc = "projects"
    /\ \E ps \in IF load_projects(configs) = "none" THEN Projects(configs) ELSE {<<>>} :
           projects' = ps
    /\ Commit("projects", [S EXCEPT !.err = load_projects(configs)],
              main(dry_run, list_projects(filenames)).next)
    /\ stdout' = IF load_projects(configs) = "none"
                 THEN main(dry_run, list_projects(filenames)).stdout
                 ELSE stdout
    /\ UNCHANGED <<runs, first, workspaces, dry_run, filenames, environ, tower_token, configs,
                   use_teams, org_id, member_ids, cur, ws_id, ce_ids>>

\* TowerOrganization.__init__ up to self.id
OrgCreate ==
    /\ pc = "org_create"
    /\ LET s1 == Issue(S, Rq("AWS", "get_cfn_stack_outputs", None, None, "nextflow-vpc"),
                       tower)
           r == org_create(s1, ORG_NAME)
       IN /\ Commit("org_create", r.s, "org_populate")
          /\ org_id' = r.ret.orgId
    /\ UNCHANGED <<runs, first, workspaces, dry_run, filenames, stdout, environ, tower_token,
                   configs, projects, use_teams, member_ids, cur, ws_id, ce_ids>>

\* TowerOrganization.populate
OrgPopulate ==
    /\ pc = "org_populate"
    /\ Commit("org_populate", org_populate(S, projects).s,
              IF projects = <<>> THEN "done" ELSE "ws_create")
    /\ cur' = 1
    /\ UNCHANGED <<runs, first, workspaces, dry_run, filenames, stdout, environ, tower_token,
                   configs, projects, use_teams, org_id, member_ids, ws_id, ce_ids>>

\* TowerWorkspace.__init__ up to self.id
WsCreate ==
    /\ pc = "ws_create"
    /\ LET s1 == Issue(S, Rq("AWS", "get_cfn_stack_outputs", None, None,
                             projects[cur].name), tower)
           r == ws_create(s1, get_valid_name(projects[cur].name), projects[cur].name)
       IN /\ Commit("ws_create", r.s, "ws_populate")
          /\ ws_id' = r.ret.id
    /\ UNCHANGED <<runs, first, workspaces, dry_run, filenames, stdout, environ, tower_token,
                   configs, projects, use_teams, org_id, member_ids, cur, ce_ids>>

\* TowerWorkspace.populate
WsPopulate ==
    /\ pc = "ws_populate"
    /\ Commit("ws_populate", ws_populate(S, Self).s, "ws_cleanup")
    /\ UNCHANGED <<runs, first, workspaces, dry_run, filenames, stdout, environ, tower_token,
                   configs, projects, use_teams, org_id, member_ids, cur, ws_id, ce_ids>>

\* TowerWorkspace.cleanup_compute_environments
WsCleanup ==
    /\ pc = "ws_cleanup"
    /\ Commit("ws_cleanup", cleanup_compute_environments(S, Self).s, "ws_compute")
    /\ UNCHANGED <<runs, first, workspaces, dry_run, filenames, stdout, environ, tower_token,
                   configs, projects, use_teams, org_id, member_ids, cur, ws_id, ce_ids>>

\* "if self.has_launchers(): self.create_compute_environment()"
WsCreateComputeEnvironment ==
    /\ pc = "ws_compute"
    /\ has_launchers(Self)
    /\ LET r == create_compute_environment(S, Self)
       IN /\ Commit("ws_compute", r.s, "sleep")
          /\ ce_ids' = r.ret
    /\ UNCHANGED <<runs, first, workspaces, dry_run, filenames, stdout, environ, tower_token,
                   configs, projects, use_teams, org_id, member_ids, cur, ws_id>>

\* the workspace has no launcher: no compute environment is asked for
WsNoLaunchers ==
    /\ pc = "ws_compute"
    /\ ~has_launchers(Self)
    /\ Commit("ws_no_launchers", S, "sleep")
    /\ UNCHANGED <<runs, first, workspaces, dry_run, filenames, stdout, environ, tower_token,
                   configs, projects, use_teams, org_id, member_ids, cur, ws_id, ce_ids>>

\* create_workspaces: time.sleep(30), then the next project
Sleep ==
    /\ pc = "sleep"
    /\ Commit("sleep", Issue(S, Rq("SLEEP", "time.sleep", ws_id, None, ""), tower),
              IF cur < Len(projects) THEN "ws_create" ELSE "done")
    /\ workspaces' =
          (projects[cur].name :>
               [id |-> ws_id,
                ce_ids |-> IF step = "ws_compute" THEN ce_ids
                           ELSE [SPOT |-> None, EC2 |-> None]]) @@ workspaces
    /\ cur' = IF cur < Len(projects) THEN cur + 1 ELSE cur
    /\ UNCHANGED <<runs, first, dry_run, filenames, stdout, environ, tower_token, configs, projects,
                   use_teams, org_id, member_ids, ws_id, ce_ids>>

\* main has ended without an exception and is run once more, by a new
\* process, with the same project configuration
Rerun ==
    /\ pc = "done"
    /\ step = "sleep"
    /\ err = "none"
    /\ first = <<>>
    /\ first' = [tower |-> tower, org_id |-> org_id, members |-> members,
                 teamids |-> teamids, workspaces |-> workspaces]
    /\ log' = <<>>
    /\ org_id' = None
    /\ members' = <<>>
    /\ teamids' = <<>>
    /\ cur' = 0
    /\ ws_id' = None
    /\ ce_ids' = [SPOT |-> None, EC2 |-> None]
    /\ workspaces' = <<>>
    /\ before' = tower
    /\ mark' = 0
    /\ step' = "start"
    /\ projects' = IF configs = <<>> THEN projects ELSE <<>>
    /\ pc' = IF configs = <<>> THEN "org_create" ELSE "projects"
    /\ UNCHANGED <<runs, tower, dry_run, filenames, stdout, environ, tower_token, configs, use_teams,
                   member_ids, err>>

\* TowerConfigurator.__init__ and configure up to org_id
CreateTowerOrganization ==
    /\ pc = "create_tower_organization"
    /\ LET c == TowerConfigurator(S, environ)
           r == IF c.s.err = "none"
                THEN create_tower_organization(c.s, ORG_NAME)
                ELSE Raise(c.s, c.s.err, None)
       IN /\ Commit("create_tower_organization", r.s, "populate_tower_organization")
          /\ tower_token' = c.s.token
          /\ org_id' = r.ret
    /\ UNCHANGED <<runs, first, workspaces, dry_run, filenames, stdout, environ, configs, projects,
                   use_teams, member_ids, cur, ws_id, ce_ids>>

\* configure: populate_tower_organization, then the outputs of the VPC stack
PopulateTowerOrganization ==
    /\ pc = "populate_tower_organization"
    /\ LET r == populate_tower_organization(S, projects, <<>>)
       IN /\ Commit("populate_tower_organization",
                    IF r.s.err = "none"
                    THEN Issue(r.s, Rq("AWS", "get_cfn_stack_outputs", None, None,
                                       "nextflow-vpc"), r.s.tower)
                    ELSE r.s,
                    IF projects = <<>> THEN "done" ELSE "create_tower_workspace")
          /\ member_ids' = IF r.s.err = "none" THEN r.ret ELSE member_ids
    /\ cur' = 1
    /\ UNCHANGED <<runs, first, workspaces, dry_run, filenames, stdout, environ, tower_token,
                   configs, projects, use_teams, org_id, ws_id, ce_ids>>

\* configure: the outputs of the project stack, then create_tower_workspace
CreateTowerWorkspace ==
    /\ pc = "create_tower_workspace"
    /\ LET s1 == Issue(S, Rq("AWS", "get_cfn_stack_outputs", None, None,
                             projects[cur].name), tower)
           r == create_tower_workspace(s1, projects[cur].name)
       IN /\ Commit("create_tower_workspace", r.s, "populate_tower_workspace")
          /\ ws_id' = r.ret
    /\ UNCHANGED <<runs, first, workspaces, dry_run, filenames, stdout, environ, tower_token,
                   configs, projects, use_teams, org_id, member_ids, cur, ce_ids>>

\* configure: populate_tower_workspace
PopulateTowerWorkspace ==
    /\ pc = "populate_tower_workspace"
    /\ Commit("populate_tower_workspace",
              populate_tower_workspace(S, ws_id, member_ids[projects[cur].name]).s,
              "create_tower_compute_env")
    /\ UNCHANGED <<runs, first, workspaces, dry_run, filenames, stdout, environ, tower_token,
                   configs, projects, use_teams, org_id, member_ids, cur, ws_id, ce_ids>>

\* configure: create_tower_compute_env, which creates the SPOT environment
CreateTowerComputeEnv ==
    /\ pc = "create_tower_compute_env"
    /\ LET r == create_tower_compute_env(S, get_cfn_stack_outputs(projects[cur].name),
                                         get_cfn_stack_outputs("nextflow-vpc"), ws_id)
       IN /\ Commit("create_tower_compute_env", r.s, "next_stack")
          /\ ce_ids' = [SPOT |-> r.ret, EC2 |-> None]
    /\ UNCHANGED <<runs, first, workspaces, dry_run, filenames, stdout, environ, tower_token,
                   configs, projects, use_teams, org_id, member_ids, cur, ws_id>>

\* configure: "for stack_name in self.projects.keys()", the next project
NextStack ==
    /\ pc = "next_stack"
    /\ Commit("next_stack", S, IF cur < Len(projects) THEN "create_tower_workspace" ELSE "done")
    /\ cur' = IF cur < Len(projects) THEN cur + 1 ELSE cur
    /\ UNCHANGED <<runs, first, workspaces, dry_run, filenames, stdout, environ, tower_token,
                   configs, projects, use_teams, org_id, member_ids, ws_id, ce_ids>>

Next ==
    \/ LoadProjects
    \/ OrgCreate
    \/ OrgPopulate
    \/ WsCreate
    \/ WsPopulate
    \/ WsCleanup
    \/ WsCreateComputeEnvironment
    \/ WsNoLaunchers
    \/ Sleep
    \/ Rerun
    \/ CreateTowerOrganization
    \/ PopulateTowerOrganization
    \/ CreateTowerWorkspace
    \/ PopulateTowerWorkspace
    \/ CreateTowerComputeEnv
    \/ NextStack

Spec == Init /\ [][Next]_vars

----------------------------------------------------------------------------
(* What the claims speak about *)

\* participants of the workspace being built, now and when the last step began
Participants == OfWorkspace(tower.participants, ws_id)

ParticipantsBefore == OfWorkspace(before.participants, ws_id)

\* positions in log of the requests of the last step
Last == mark + 1 .. Len(log)

\* a step of TowerWorkspace.__init__ has just been taken
InWorkspace ==
    step \in {"ws_create", "ws_populate", "ws_cleanup", "ws_compute", "ws_no_launchers"}

\* a step of TowerConfigurator.configure for the stack projects[cur] has just
\* been taken
InStack ==
    step \in {"create_tower_workspace", "populate_tower_workspace",
              "create_tower_compute_env"}

\* the desired <<user, group, role>> of the workspace being built
Desired == list_users(projects[cur].users)

\* every user of the project sits in one bucket
OneBucketEach ==
    \A i, j \in DOMAIN Desired : Desired[i][1] = Desired[j][1] => i = j

\* p is the participant of a desired user, with the desired role
IsDesiredUser(p) ==
    \E i \in DOMAIN Desired :
        /\ p.memberId = members[Desired[i][1]].memberId
        /\ p.wspRole = Desired[i][3]

\* p is the participant of a desired team, with the desired role
IsDesiredTeam(p) ==
    \E i \in DOMAIN teamids[projects[cur].name] :
        /\ p.teamId = teamids[projects[cur].name][i][1]
        /\ p.wspRole = teamids[projects[cur].name][i][2]

\* p held role owner when the last step began
WasOwner(p) ==
    \E q \in Range(ParticipantsBefore) :
        q.participantId = p.participantId /\ q.wspRole = "owner"

\* rq is the request method path
Is(rq, method, path) == rq.method = method /\ rq.path = path

----------------------------------------------------------------------------
(* C1, C2: TowerWorkspace.populate *)

\* C1: populate in users mode, with every user in one bucket, returns and
\* leaves as participants exactly the desired users, each with its desired
\* role, and the participants that were owners before; the others are removed
C1_PopulateUsers ==
    (step = "ws_populate" /\ ~use_teams /\ OneBucketEach) =>
        /\ err = "none"
        /\ \A i \in DOMAIN Desired :
              \E p \in Range(Participants) :
                  /\ p.memberId = members[Desired[i][1]].memberId
                  /\ p.wspRole = Desired[i][3]
        /\ \A q \in Range(ParticipantsBefore) :
              q.wspRole = "owner" =>
                  \E p \in Range(Participants) : p.participantId = q.participantId
        /\ \A p \in Range(Participants) : IsDesiredUser(p) \/ WasOwner(p)

\* no team that takes part in a workspace has the id of a member
NoSharedIds ==
    \A p \in Range(before.participants) :
        p.teamId = None \/ \A m \in Range(before.members) : m.memberId # p.teamId

\* what C1 says holds wherever team ids and member ids are apart
C1_ApartFromSharedIds == NoSharedIds => C1_PopulateUsers

\* C2: after populate, in users mode and in teams mode, every participant is
\* a desired user, a desired team or an owner of the workspace
C2_NoStaleParticipants ==
    (step = "ws_populate" /\ err = "none") =>
        \A p \in Range(Participants) :
            \/ ~use_teams /\ IsDesiredUser(p)
            \/ use_teams /\ IsDesiredTeam(p)
            \/ p.wspRole = "owner"
            \/ WasOwner(p)

----------------------------------------------------------------------------
(* C3, C4: members of the organization and answers that tell of a conflict *)

Emails == {"ann@x.org", "bob@x.org", "dee@x.org", "joann@x.org"}

\* the members of the control plane t with email user
MembersWith(t, user) == SelectSeq(t.members, LAMBDA m : m.email = user)

\* C3: on every member list, add_member returns the member with the email
\* without raising; a second call returns the same memberId; the two calls
\* create at most one member
C3_AddMemberIdempotent ==
    (org_id # None /\ err = "none") =>
        \A user \in Emails :
            LET a == add_member(S, user)
                b == add_member(a.s, user)
            IN /\ a.s.err = "none"
               /\ a.ret.email = user
               /\ MembersWith(a.s.tower, user) = <<a.ret>>
               /\ b.s.err = "none"
               /\ b.ret.memberId = a.ret.memberId
               /\ Len(b.s.tower.members) <= Len(tower.members) + 1

\* the answer to the add request rq says that the entity exists already
IsConflict(rq) ==
    /\ \/ Is(rq, "PUT", "/orgs/members/add")
       \/ Is(rq, "POST", "/orgs/teams/members")
       \/ Is(rq, "PUT", "/participants/add")
    /\ \/ In("already a member", rq.reply)
       \/ rq.reply = "The member is already associated with the team"
       \/ rq.reply = "Already a participant"

\* C4: a step in which an add request was answered with such a message ends
\* without an exception, and the member so answered for is resolved: it is
\* the one TowerOrganization keeps for the email, or its id is among the
\* member ids TowerConfigurator keeps
C4_ConflictResolved ==
    \A i \in Last :
        IsConflict(log[i]) =>
            /\ err = "none"
            /\ step = "org_populate" =>
                  /\ log[i].name \in DOMAIN members
                  /\ MembersWith(tower, log[i].name) = <<members[log[i].name]>>
            /\ step = "populate_tower_organization" =>
                  \E stack \in DOMAIN member_ids,
                     m \in Range(MembersWith(tower, log[i].name)) :
                      m.memberId \in Range(member_ids[stack].maintainers)
                                         \cup Range(member_ids[stack].viewers)

----------------------------------------------------------------------------
(* C5: TowerWorkspace.add_participant *)

\* positions of the add requests among those s has issued after the first n
AddRequests(s, n) ==
    {i \in n + 1 .. Len(s.log) : Is(s.log[i], "PUT", "/participants/add")}

\* add_participant, called with a for the participant p that is there
\* already, asks for no addition, returns p and leaves p with role
Readded(a, p, role) ==
    /\ a.s.err = "none"
    /\ AddRequests(a.s, Len(log)) = {}
    /\ a.ret.participantId = p.participantId
    /\ \E q \in Range(OfWorkspace(a.s.tower.participants, ws_id)) :
          q.participantId = p.participantId /\ q.wspRole = role

\* C5: a workspace has at most one participant for a member id and for a
\* team id, and add_participant for one that takes part already asks for no
\* addition, returns the participant there is and gives it the role
C5_OneParticipantEach ==
    (InWorkspace /\ err = "none") =>
        /\ \A p, q \in Range(tower.participants) :
              (/\ p.wsId = q.wsId
               /\ \/ p.memberId # None /\ p.memberId = q.memberId
                  \/ p.teamId # None /\ p.teamId = q.teamId) => p = q
        /\ \A p \in Range(Participants), role \in {"maintain", "view"} :
              /\ p.teamId # None =>
                    Readded(add_participant(S, Self, role, "", p.teamId), p, role)
              /\ \A user \in DOMAIN members :
                    members[user].memberId = p.memberId =>
                        Readded(add_participant(S, Self, role, user, None), p, role)

----------------------------------------------------------------------------
(* C6, C7: TowerWorkspace.cleanup_compute_environments *)

\* compute environments of the workspace being built when the last step began
EnvsBefore == OfWorkspace(before.computeEnvs, ws_id)

\* positions in log of the delete requests of the last step
Deletions == {i \in Last : Is(log[i], "DELETE", "/compute-envs") /\ log[i].ws = ws_id}

\* the environments the last step asked to delete
DeleteRequested == {log[i].id : i \in Deletions}

\* the name of ce carries the current version tag
Tagged(ce) == endswith(ce.name, CE_VERSION)

\* the roles of the buckets of the project that hold a user
ConfiguredRoles ==
    {role_mapping[g][2] :
       g \in {h \in DOMAIN role_mapping : projects[cur].users[role_mapping[h][1]] # <<>>}}

\* the configuration of the project gives someone a role that may launch
LaunchConfigured == ConfiguredRoles \cap launcher_roles # {}

\* the workspace has a participant with a role that may launch
LaunchParticipant == \E p \in Range(Participants) : p.wspRole \in launcher_roles

\* C6 as stated: cleanup asks to delete exactly the environments without the
\* version tag, and all environments when the workspace has no participant
\* with a role in {owner, admin, maintain, launch}
C6_CleanupByParticipants ==
    step = "ws_cleanup" =>
        DeleteRequested =
            {ce.id : ce \in {e \in Range(EnvsBefore) : ~Tagged(e) \/ ~LaunchParticipant}}

\* C6, amended: cleanup asks to delete, once each, exactly the environments
\* without the version tag, and all environments when the configured users or
\* teams of the project hold no role in {owner, admin, maintain, launch}; a
\* tagged environment of a project with such a role stays
C6_CleanupByConfiguration ==
    step = "ws_cleanup" =>
        /\ DeleteRequested =
              {ce.id : ce \in {e \in Range(EnvsBefore) : ~Tagged(e) \/ ~LaunchConfigured}}
        /\ \A i, j \in Deletions : log[i].id = log[j].id => i = j
        /\ \A ce \in Range(EnvsBefore) :
              (Tagged(ce) /\ LaunchConfigured) => ce \in Range(tower.computeEnvs)

\* cleanup has asked to delete a tagged environment of a workspace whose owner
\* takes part, the project configuring no role that may launch
C6_Witness ==
    /\ step = "ws_cleanup"
    /\ ~LaunchConfigured
    /\ LaunchParticipant
    /\ \E ce \in Range(EnvsBefore) : Tagged(ce) /\ ce.id \in DeleteRequested

\* positions in log of the delete requests of the last step that were
\* answered with "has active jobs"
Skipped == {i \in Deletions : In("has active jobs", log[i].reply)}

\* C7: a delete request answered with "has active jobs" is reported and ends
\* nothing: the environment stays, the other environments to delete are
\* asked for, the run goes on to create compute environments, and no
\* environment is asked to be deleted twice in a run
C7_ActiveJobsSkipped ==
    /\ \A i, j \in DOMAIN log :
          (/\ Is(log[i], "DELETE", "/compute-envs")
           /\ Is(log[j], "DELETE", "/compute-envs")
           /\ log[i].ws = log[j].ws
           /\ log[i].id = log[j].id) => i = j
    /\ (step = "ws_cleanup" /\ Skipped # {}) =>
          /\ err = "none"
          /\ pc = "ws_compute"
          /\ \A i \in Skipped :
                /\ \E ce \in Range(tower.computeEnvs) :
                      ce.wsId = ws_id /\ ce.id = log[i].id
                /\ i < Len(log)
                /\ Is(log[i + 1], "PRINT", "Skipping the deletion")
                /\ log[i + 1].id = log[i].id
          /\ \A ce \in Range(EnvsBefore) :
                (~Tagged(ce) \/ ~LaunchConfigured) => ce.id \in DeleteRequested

\* the run is over: a deletion in the first workspace was skipped, after it
\* another environment was deleted and one created, and a second workspace
\* has been built
C7_Witness ==
    /\ pc = "done"
    /\ cur = 2
    /\ \E i, j, k \in DOMAIN log :
          /\ i < j /\ j < k
          /\ Is(log[i], "DELETE", "/compute-envs")
          /\ In("has active jobs", log[i].reply)
          /\ Is(log[j], "DELETE", "/compute-envs")
          /\ log[j].reply = ""
          /\ log[j].ws = log[i].ws
          /\ Is(log[k], "POST", "/compute-envs")
          /\ log[k].ws = log[i].ws

----------------------------------------------------------------------------
(* C8, C9, C10: create_compute_environment and create_credentials *)

\* the pricing models the last step provides for: create_tower_compute_env
\* of the older script builds the SPOT environment only
Models == IF step = "create_tower_compute_env" THEN {"SPOT"} ELSE {"SPOT", "EC2"}

\* the name the last step wants for the environment of model
DesiredName(model) ==
    IF step = "create_tower_compute_env"
    THEN projects[cur].name \o " (default)"
    ELSE projects[cur].name
             \o (IF model = "SPOT" THEN "-spot-" ELSE "-ondemand-") \o CE_VERSION

\* ce is an environment create_compute_environment takes for the one of model
Serves(ce, model) ==
    /\ ce.wsId = ws_id
    /\ ce.platform = "aws-batch"
    /\ ce.status \in {"AVAILABLE", "CREATING"}
    /\ ce.name = DesiredName(model)

\* positions in log of the last step's requests to create the one of model
Creations(model) ==
    {i \in Last : /\ Is(log[i], "POST", "/compute-envs")
                  /\ log[i].ws = ws_id
                  /\ log[i].name = DesiredName(model)}

\* C8: create_compute_environment asks to create the environment of a model
\* if and only if the workspace listed none that serves for it, asks once,
\* and returns an identifier of a serving environment for both models (a call
\* that create_credentials ends with its assertion asks for nothing more);
\* create_tower_compute_env does so for the one environment it provides
C8_EnsureSet ==
    step \in {"ws_compute", "create_tower_compute_env"} =>
        \A model \in Models :
            /\ Cardinality(Creations(model)) <= 1
            /\ Creations(model) # {} =>
                  ~\E ce \in Range(before.computeEnvs) : Serves(ce, model)
            /\ err = "none" =>
                  /\ (~\E ce \in Range(before.computeEnvs) : Serves(ce, model)) =>
                        Creations(model) # {}
                  /\ ce_ids[model] # None
                  /\ \E ce \in Range(tower.computeEnvs) :
                        Serves(ce, model) /\ ce.id = ce_ids[model]

\* the SPOT environment was there and was returned, the EC2 one was created
C8_Witness ==
    /\ step = "ws_compute"
    /\ err = "none"
    /\ \E ce \in Range(before.computeEnvs) : Serves(ce, "SPOT") /\ ce.id = ce_ids["SPOT"]
    /\ Creations("SPOT") = {}
    /\ ~\E ce \in Range(before.computeEnvs) : Serves(ce, "EC2")
    /\ Creations("EC2") # {}

\* cred is the usable credential of workspace ws named after its stack
IsStackCredential(cred, ws) ==
    /\ cred.wsId = ws
    /\ \E w \in Range(tower.workspaces) : w.id = ws /\ cred.name = w.name
    /\ cred.provider = "aws"
    /\ ~cred.deleted

\* C9: every request to create a compute environment comes after the
\* credentials of its workspace were looked up, and every environment the
\* run creates refers to the usable credential of its workspace that is named
\* after the stack
C9_CredentialFirst ==
    /\ \A i \in DOMAIN log :
          Is(log[i], "POST", "/compute-envs") =>
              \E j \in 1 .. i - 1 :
                  Is(log[j], "GET", "/credentials") /\ log[j].ws = log[i].ws
    /\ step \in {"ws_compute", "create_tower_compute_env"} =>
          \A ce \in Range(tower.computeEnvs) :
              ce \notin Range(before.computeEnvs) =>
                  \E cred \in Range(tower.credentials) :
                      /\ IsStackCredential(cred, ce.wsId)
                      /\ cred.id = ce.credentialsId

\* an environment was created in a workspace that had no credential before:
\* the credential was created first
C9_Witness ==
    /\ step = "ws_compute"
    /\ err = "none"
    /\ OfWorkspace(before.credentials, ws_id) = <<>>
    /\ \E i, j \in Last :
          /\ i < j
          /\ Is(log[i], "POST", "/credentials")
          /\ Is(log[j], "POST", "/compute-envs")
    /\ \E ce \in Range(tower.computeEnvs) :
          /\ ce \notin Range(before.computeEnvs)
          /\ \E cred \in Range(tower.credentials) :
                IsStackCredential(cred, ws_id) /\ cred.id = ce.credentialsId

\* the credentials of the workspace being built, in the control plane t, that
\* are named after the stack
Named(t) ==
    SelectSeq(OfWorkspace(t.credentials, ws_id), LAMBDA c : c.name = projects[cur].name)

\* positions of the secret reads among the requests of l after the first n
SecretReads(l, n) == {i \in n + 1 .. Len(l) : Is(l[i], "AWS", "get_secret_value")}

\* positions of the credential creations among the requests of l after the
\* first n
CredentialPosts(l, n) == {i \in n + 1 .. Len(l) : Is(l[i], "POST", "/credentials")}

\* a is a call of Credential.ensure in the current state and b a second call
\* after it: where a credential named after the stack is found, a reads no
\* secret, creates nothing and returns the id of that credential (or ends
\* with its assertion); where none is found a reads the secret once and
\* creates one credential, which b returns without reading or creating
GetOrCreate(a, b) ==
    IF Named(tower) # <<>>
    THEN /\ SecretReads(a.s.log, Len(log)) = {}
         /\ CredentialPosts(a.s.log, Len(log)) = {}
         /\ a.s.tower = tower
         /\ a.s.err = "none" => a.ret = Named(tower)[1].id
         /\ (Named(tower)[1].provider = "aws" /\ ~Named(tower)[1].deleted) =>
               a.s.err = "none"
    ELSE /\ a.s.err = "none"
         /\ Cardinality(SecretReads(a.s.log, Len(log))) = 1
         /\ Cardinality(CredentialPosts(a.s.log, Len(log))) = 1
         /\ Len(Named(a.s.tower)) = 1
         /\ Named(a.s.tower)[1].id = a.ret
         /\ b.s.err = "none"
         /\ b.ret = a.ret
         /\ SecretReads(b.s.log, Len(a.s.log)) = {}
         /\ CredentialPosts(b.s.log, Len(a.s.log)) = {}
         /\ b.s.tower = a.s.tower

\* C10: create_credentials and create_tower_credentials get or create the
\* credential named after the stack, reading the secret only to create it
\* (GetOrCreate).  No workspace has two credentials of one name, and no
\* secret is read twice in a run
C10_GetOrCreate ==
    /\ \A c, d \in Range(tower.credentials) :
          (c.wsId = d.wsId /\ c.name = d.name) => c = d
    /\ \A i, j \in SecretReads(log, 0) : log[i].name = log[j].name => i = j
    /\ (InWorkspace /\ err = "none") =>
          LET a == create_credentials(S, Self)
          IN GetOrCreate(a, create_credentials(a.s, Self))
    /\ (InStack /\ err = "none") =>
          LET stack == get_cfn_stack_outputs(projects[cur].name)
              a == create_tower_credentials(S, stack, ws_id)
          IN GetOrCreate(a, create_tower_credentials(a.s, stack, ws_id))

\* both environments were created in a workspace without a credential: the
\* first call of create_credentials read the secret and created the
\* credential, the second found it
C10_Witness ==
    /\ step = "ws_compute"
    /\ err = "none"
    /\ Named(before) = <<>>
    /\ Creations("SPOT") # {}
    /\ Creations("EC2") # {}
    /\ Cardinality(SecretReads(log, mark)) = 1
    /\ Cardinality(CredentialPosts(log, mark)) = 1
    /\ Len(Named(tower)) = 1

----------------------------------------------------------------------------
(* C11: the assertions of create_credentials and create_tower_credentials *)

\* the credential of the workspace being built that is found under the stack
\* name in the control plane t is of another provider than aws or deleted
Mismatch(t) ==
    /\ Named(t) # <<>>
    /\ Named(t)[1].provider # "aws" \/ Named(t)[1].deleted

\* the call a of Credential.ensure ended with the assertion: it returned no
\* id, read no secret, created no credential and left the control plane as
\* it was
Halted(a) ==
    /\ a.s.err = "AssertionError"
    /\ a.ret = None
    /\ SecretReads(a.s.log, Len(log)) = {}
    /\ CredentialPosts(a.s.log, Len(log)) = {}
    /\ a.s.tower = tower

\* C11: where the credential found under the stack name is of another
\* provider than aws or deleted, create_credentials and
\* create_tower_credentials end with the assertion and return no id; a step
\* that creates compute environments in such a workspace creates neither a
\* credential nor a compute environment, and where it has looked the
\* credentials up the run has ended with the assertion
C11_MismatchHalts ==
    /\ (InWorkspace /\ err = "none" /\ Mismatch(tower)) =>
          Halted(create_credentials(S, Self))
    /\ (InStack /\ err = "none" /\ Mismatch(tower)) =>
          Halted(create_tower_credentials(S, get_cfn_stack_outputs(projects[cur].name),
                                          ws_id))
    /\ (step \in {"ws_compute", "create_tower_compute_env"} /\ Mismatch(before)) =>
          /\ \A i \in Last : ~Is(log[i], "POST", "/compute-envs")
          /\ tower.computeEnvs = before.computeEnvs
          /\ tower.credentials = before.credentials
          /\ (\E i \in Last : Is(log[i], "GET", "/credentials")) =>
                /\ err = "AssertionError"
                /\ pc = "failed"

\* create_compute_environment found a deleted credential under the stack
\* name, and the run has ended with the assertion
C11_Witness ==
    /\ step = "ws_compute"
    /\ Mismatch(before)
    /\ Named(before)[1].deleted
    /\ err = "AssertionError"
    /\ pc = "failed"

----------------------------------------------------------------------------
(* C12: a first run of main for one project on an empty control plane *)

\* positions in log of the requests method path
Requests(method, path) == {i \in DOMAIN log : Is(log[i], method, path)}

\* main has ended without an exception; it had one project, with one
\* maintainer, another user as viewer and no tag of its own, and it created
\* the organization, no other being there, so that it began on an empty
\* control plane
FirstRun ==
    /\ step = "sleep"
    /\ pc = "done"
    /\ err = "none"
    /\ ~use_teams
    /\ Len(projects) = 1
    /\ Requests("POST", "/orgs") # {}
    /\ \A org \in Range(tower.organizations) : org.fullName = ORG_NAME
    /\ projects[1].users.owners = <<>>
    /\ projects[1].users.admins = <<>>
    /\ projects[1].users.launchers = <<>>
    /\ Len(projects[1].users.maintainers) = 1
    /\ Len(projects[1].users.viewers) = 1
    /\ projects[1].users.maintainers # projects[1].users.viewers
    /\ projects[1].tags = << <<"TowerProject", projects[1].name>> >>

\* the participant of workspace ws for the member with email user has role
HasRole(ws, user, role) ==
    \E m \in Range(tower.members), p \in Range(OfWorkspace(tower.participants, ws)) :
        /\ m.email = user
        /\ p.memberId = m.memberId
        /\ p.wspRole = role

\* what the first run leaves, the labels apart: one organization, one
\* workspace named after the stack, the two users as the members besides the
\* token user, two participants added (the maintainer with role maintain,
\* the viewer with role view) besides the owner, one credential and two
\* compute environments, one SPOT and one EC2
FirstRunResult ==
    /\ Len(tower.organizations) = 1
    /\ Len(tower.workspaces) = 1
    /\ tower.workspaces[1].name = projects[1].name
    /\ Cardinality(Requests("PUT", "/orgs/members/add")) = 2
    /\ {m.email : m \in Range(tower.members)} \ {TokenUser}
          = {projects[1].users.maintainers[1], projects[1].users.viewers[1]}
    /\ Len(tower.members) <= 3
    /\ Cardinality(Requests("PUT", "/participants/add")) = 2
    /\ Len(SelectSeq(tower.participants, LAMBDA p : p.wspRole # "owner")) = 2
    /\ HasRole(tower.workspaces[1].id, projects[1].users.maintainers[1], "maintain")
    /\ HasRole(tower.workspaces[1].id, projects[1].users.viewers[1], "view")
    /\ Len(tower.credentials) = 1
    /\ Len(tower.computeEnvs) = 2
    /\ {ce.type : ce \in Range(tower.computeEnvs)} = {"SPOT", "EC2"}

\* C12 as stated: the first run leaves one organization, one workspace, two
\* members, two participants added, one credential, two compute
\* environments and no resource label
C12_FirstRunNoLabel ==
    FirstRun => (FirstRunResult /\ tower.labels = <<>>)

\* C12, amended: the first run leaves one organization, one workspace, two
\* members, two participants added, one credential, two compute
\* environments, and one resource label, TowerProject with the stack name as
\* value, which both compute environments carry
C12_FirstRunOneLabel ==
    FirstRun =>
        /\ FirstRunResult
        /\ Len(tower.labels) = 1
        /\ tower.labels[1].name = "TowerProject"
        /\ tower.labels[1].value = projects[1].name
        /\ tower.labels[1].wsId = tower.workspaces[1].id
        /\ Cardinality(Requests("POST", "/labels")) = 1
        /\ \A ce \in Range(tower.computeEnvs) : ce.labelIds = <<tower.labels[1].id>>

\* a first run has ended
C12_Witness ==
    /\ FirstRun
    /\ Len(tower.computeEnvs) = 2
    /\ tower.labels # <<>>

----------------------------------------------------------------------------
(* C13: a second run of main on what a completed first run left *)

\* the identifiers of the entities of the control plane t, by kind
Entities(t) ==
    [organizations |-> {x.orgId : x \in Range(t.organizations)},
     members |-> {x.memberId : x \in Range(t.members)},
     teams |-> {x.teamId : x \in Range(t.teams)},
     workspaces |-> {x.id : x \in Range(t.workspaces)},
     participants |-> {x.participantId : x \in Range(t.participants)},
     credentials |-> {x.id : x \in Range(t.credentials)},
     labels |-> {x.id : x \in Range(t.labels)},
     computeEnvs |-> {x.id : x \in Range(t.computeEnvs)}]

\* the requests that ask for a creation
IsCreation(rq) ==
    \/ Is(rq, "POST", "/orgs")
    \/ Is(rq, "PUT", "/orgs/members/add")
    \/ Is(rq, "POST", "/orgs/teams")
    \/ Is(rq, "POST", "/orgs/workspaces")
    \/ Is(rq, "PUT", "/participants/add")
    \/ Is(rq, "POST", "/credentials")
    \/ Is(rq, "POST", "/labels")
    \/ Is(rq, "POST", "/compute-envs")

\* what the second run has returned so far is what the first run returned
SameReturned ==
    /\ org_id \in {None, first.org_id}
    /\ \A user \in DOMAIN members :
          user \in DOMAIN first.members /\ members[user] = first.members[user]
    /\ \A name \in DOMAIN teamids :
          name \in DOMAIN first.teamids /\ teamids[name] = first.teamids[name]
    /\ \A name \in DOMAIN workspaces :
          name \in DOMAIN first.workspaces /\ workspaces[name] = first.workspaces[name]
    /\ InWorkspace => ws_id = first.workspaces[projects[cur].name].id
    /\ pc = "done" =>
          /\ org_id = first.org_id
          /\ DOMAIN members = DOMAIN first.members
          /\ DOMAIN teamids = DOMAIN first.teamids
          /\ DOMAIN workspaces = DOMAIN first.workspaces

\* C13: in a second run on what a completed first run left, with the same
\* configuration, no step ends with an exception, no request asks for a
\* creation, the control plane holds no entity that the first run did not
\* leave, and every identifier returned is the one the first run returned
C13_SecondRunCreatesNothing ==
    first # <<>> =>
        /\ err = "none"
        /\ \A i \in DOMAIN log : ~IsCreation(log[i])
        /\ \A kind \in DOMAIN Entities(tower) :
              Entities(tower)[kind] \subseteq Entities(first.tower)[kind]
        /\ SameReturned

----------------------------------------------------------------------------
(* C14: TowerOrganization.create and create_tower_organization *)

\* full names to call Organization.ensure with, and the names wanted for them
OrgNames ==
    [full_name \in {"Sage Bionetworks", "Other Org", "R&D (test)"} |->
       CASE full_name = "Sage Bionetworks" -> "Sage-Bionetworks"
         [] full_name = "Other Org" -> "Other-Org"
         [] full_name = "R&D (test)" -> "R-D--test-"]

\* the organizations of the control plane t with the full name
OrgsNamed(t, full_name) ==
    SelectSeq(t.organizations, LAMBDA org : org.fullName = full_name)

\* positions of the organization creations among the requests of l after the
\* first n
OrgPosts(l, n) == {i \in n + 1 .. Len(l) : Is(l[i], "POST", "/orgs")}

\* a is a call of Organization.ensure for full_name in the current state,
\* with the organization id of its result, and b a second call after it:
\* where an organization of that full name is listed a returns it and asks
\* for no creation; otherwise a creates one organization, with that full
\* name and the name wanted for it; b returns the same id and creates nothing
OrgGetOrCreate(full_name, a, a_id, b, b_id) ==
    /\ a.s.err = "none"
    /\ b.s.err = "none"
    /\ IF OrgsNamed(tower, full_name) # <<>>
       THEN /\ a_id = OrgsNamed(tower, full_name)[1].orgId
            /\ OrgPosts(a.s.log, Len(log)) = {}
            /\ a.s.tower = tower
       ELSE /\ Cardinality(OrgPosts(a.s.log, Len(log))) = 1
            /\ Len(a.s.tower.organizations) = Len(tower.organizations) + 1
            /\ Len(OrgsNamed(a.s.tower, full_name)) = 1
            /\ OrgsNamed(a.s.tower, full_name)[1].orgId = a_id
            /\ OrgsNamed(a.s.tower, full_name)[1].name = OrgNames[full_name]
            /\ \A org \in Range(tower.organizations) : org.orgId # a_id
    /\ b_id = a_id
    /\ OrgPosts(b.s.log, Len(a.s.log)) = {}
    /\ b.s.tower = a.s.tower

\* C14: TowerOrganization.create and create_tower_organization get or create
\* the organization of a full name (OrgGetOrCreate), on every control plane
\* the runs reach; once a run has ensured its organization there is exactly
\* one organization of that full name
C14_OrgGetOrCreate ==
    /\ err = "none" =>
          \A full_name \in DOMAIN OrgNames :
              /\ LET a == org_create(S, full_name)
                     b == org_create(a.s, full_name)
                 IN OrgGetOrCreate(full_name, a, a.ret.orgId, b, b.ret.orgId)
              /\ LET a == create_tower_organization(S, full_name)
                     b == create_tower_organization(a.s, full_name)
                 IN OrgGetOrCreate(full_name, a, a.ret, b, b.ret)
    /\ (step \notin {"start", "projects"} /\ tower_token # NoToken) =>
          /\ Len(OrgsNamed(tower, ORG_NAME)) = 1
          /\ OrgsNamed(tower, ORG_NAME)[1].orgId = org_id
          /\ OrgsNamed(tower, ORG_NAME)[1].name = "Sage-Bionetworks"

\* a run has created its organization next to one of another full name
C14_Witness ==
    /\ step \in {"org_create", "create_tower_organization"}
    /\ OrgPosts(log, mark) # {}
    /\ Len(before.organizations) = 1
    /\ Len(tower.organizations) = 2
    /\ OrgsNamed(tower, ORG_NAME)[1].orgId = org_id

----------------------------------------------------------------------------
(* C15: TowerWorkspace.create and create_tower_workspace *)

\* the workspaces of the control plane t with the name
WorkspacesNamed(t, name) == SelectSeq(t.workspaces, LAMBDA w : w.name = name)

\* positions of the workspace creations among the requests of l after the
\* first n
WorkspacePosts(l, n) == {i \in n + 1 .. Len(l) : Is(l[i], "POST", "/orgs/workspaces")}

\* a is a call of Workspace.ensure for the stack in the current state, with
\* the workspace id of its result, and b a second call after it: where a
\* workspace of the valid name of the stack is listed a returns it and asks
\* for no creation; otherwise a creates one workspace of that name; b
\* returns the same id and creates nothing
WorkspaceGetOrCreate(stack_name, a, a_id, b, b_id) ==
    /\ a.s.err = "none"
    /\ b.s.err = "none"
    /\ IF WorkspacesNamed(tower, get_valid_name(stack_name)) # <<>>
       THEN /\ a_id = WorkspacesNamed(tower, get_valid_name(stack_name))[1].id
            /\ WorkspacePosts(a.s.log, Len(log)) = {}
            /\ a.s.tower = tower
       ELSE /\ Cardinality(WorkspacePosts(a.s.log, Len(log))) = 1
            /\ Len(a.s.tower.workspaces) = Len(tower.workspaces) + 1
            /\ Len(WorkspacesNamed(a.s.tower, get_valid_name(stack_name))) = 1
            /\ WorkspacesNamed(a.s.tower, get_valid_name(stack_name))[1].id = a_id
            /\ WorkspacesNamed(a.s.tower, get_valid_name(stack_name))[1].fullName
                  = stack_name
            /\ \A w \in Range(tower.workspaces) : w.id # a_id
    /\ b_id = a_id
    /\ WorkspacePosts(b.s.log, Len(a.s.log)) = {}
    /\ b.s.tower = a.s.tower

\* C15: TowerWorkspace.create and create_tower_workspace get or create the
\* workspace of a stack, keyed by its valid name (WorkspaceGetOrCreate), on
\* every control plane the runs reach; no two workspaces have one name, the
\* workspace being built is the one named after its project, and after a
\* run every project has exactly one workspace
C15_WorkspaceGetOrCreate ==
    /\ (org_id # None /\ err = "none") =>
          \A stack_name \in Range(ProjectNames) :
              /\ LET a == ws_create(S, get_valid_name(stack_name), stack_name)
                     b == ws_create(a.s, get_valid_name(stack_name), stack_name)
                 IN WorkspaceGetOrCreate(stack_name, a, a.ret.id, b, b.ret.id)
              /\ LET a == create_tower_workspace(S, stack_name)
                     b == create_tower_workspace(a.s, stack_name)
                 IN WorkspaceGetOrCreate(stack_name, a, a.ret, b, b.ret)
    /\ \A v, w \in Range(tower.workspaces) : v.name = w.name => v = w
    /\ ((InWorkspace \/ InStack) /\ err = "none") =>
          /\ Len(WorkspacesNamed(tower, projects[cur].name)) = 1
          /\ WorkspacesNamed(tower, projects[cur].name)[1].id = ws_id
    /\ (pc = "done" /\ err = "none" /\ ~dry_run) =>
          \A i \in DOMAIN projects : Len(WorkspacesNamed(tower, projects[i].name)) = 1

\* the workspace of a second project was created next to that of the first
C15_Witness ==
    /\ step \in {"ws_create", "create_tower_workspace"}
    /\ err = "none"
    /\ cur = 2
    /\ WorkspacePosts(log, mark) # {}
    /\ Len(before.workspaces) = 1
    /\ Len(tower.workspaces) = 2
    /\ WorkspacesNamed(tower, projects[2].name)[1].id = ws_id

----------------------------------------------------------------------------
(* C16: TowerWorkspace.create_resource_label *)

\* the labels of the workspace being built, in the control plane t, with the
\* name and the value of tag
Labelled(t, tag) ==
    SelectSeq(OfWorkspace(t.labels, ws_id),
              LAMBDA label : label.name = tag[1] /\ label.value = tag[2])

\* positions of the label creations among the requests of l after the first n
LabelPosts(l, n) == {i \in n + 1 .. Len(l) : Is(l[i], "POST", "/labels")}

\* names and values to call create_resource_label with
TagChoices ==
    {<<"TowerProject", "foo-project">>, <<"TowerProject", "bar-project">>,
     <<"CostCenter", "foo-project">>, <<"Department", "IBC">>}

\* C16: on every label list, create_resource_label returns the id of a label
\* of the name and value and creates nothing where there is at least one,
\* and creates exactly one where there is none; no step adds a label of a
\* name and value of which there was one already
C16_LabelGetOrCreate ==
    /\ (InWorkspace /\ err = "none") =>
          \A tag \in TagChoices :
              LET a == create_resource_label(S, Self, tag[1], tag[2])
              IN /\ a.s.err = "none"
                 /\ IF Labelled(tower, tag) # <<>>
                    THEN /\ \E label \in Range(Labelled(tower, tag)) : label.id = a.ret
                         /\ LabelPosts(a.s.log, Len(log)) = {}
                         /\ a.s.tower = tower
                    ELSE /\ Cardinality(LabelPosts(a.s.log, Len(log))) = 1
                         /\ Len(Labelled(a.s.tower, tag)) = 1
                         /\ Labelled(a.s.tower, tag)[1].id = a.ret
                         /\ Len(a.s.tower.labels) = Len(tower.labels) + 1
    /\ \A label \in Range(before.labels) :
          Cardinality({l \in Range(tower.labels) :
                         /\ l.wsId = label.wsId
                         /\ l.name = label.name
                         /\ l.value = label.value})
            = Cardinality({l \in Range(before.labels) :
                             /\ l.wsId = label.wsId
                             /\ l.name = label.name
                             /\ l.value = label.value})

\* C16 where the label list holds at most one label of a name and a value
C16_ApartFromDuplicates ==
    (\A k, l \in Range(before.labels) \cup Range(tower.labels) :
        (k.wsId = l.wsId /\ k.name = l.name /\ k.value = l.value) => k = l)
      => C16_LabelGetOrCreate

----------------------------------------------------------------------------
(* C17: create_workspaces and configure, when a project fails *)

\* the run has begun to build the workspace of project i: it has asked for
\* the outputs of its stack
Attempted(i) ==
    \E j \in DOMAIN log :
        Is(log[j], "AWS", "get_cfn_stack_outputs") /\ log[j].name = projects[i].name

\* C17: when a step that builds the workspace of a project has ended with an
\* exception, the run still builds the workspaces of all other projects
C17_FailureIsolated ==
    (pc = "failed" /\ (InWorkspace \/ InStack)) =>
        \A i \in DOMAIN projects : Attempted(i)

----------------------------------------------------------------------------
(* C18: TowerOrganization.populate with use_teams *)

\* the name of the team of a bucket of a project
TeamName(project_name, user_group) ==
    TrimProjectSuffix(project_name) \o "-" \o user_group

\* the teams of the control plane with the name
TeamsNamed(team_name) == SelectSeq(tower.teams, LAMBDA team : team.name = team_name)

\* the ids of the members of the team
TeamMemberIds(team_id) ==
    {x.memberId : x \in {y \in Range(tower.teamMembers) : y.teamId = team_id}}

\* the ids of the members of the organization with an email among users
MemberIds(users) ==
    {m.memberId : m \in {n \in Range(tower.members) : n.email \in Range(users)}}

\* the team of the bucket user_group of project i has exactly the users of
\* the bucket as members
TeamAsConfigured(i, user_group) ==
    \A team \in Range(TeamsNamed(TeamName(projects[i].name, user_group))) :
        TeamMemberIds(team.teamId) = MemberIds(projects[i].users[user_group])

\* C18: after populate with use_teams, the team of every bucket of every
\* project, empty or not, has exactly the users of the bucket as members;
\* a bucket with users has one team, and no two teams have one name
C18_TeamMembers ==
    (step = "org_populate" /\ use_teams /\ err = "none") =>
        /\ \A i \in DOMAIN projects, g \in DOMAIN role_mapping :
              /\ TeamAsConfigured(i, role_mapping[g][1])
              /\ projects[i].users[role_mapping[g][1]] # <<>> =>
                    Len(TeamsNamed(TeamName(projects[i].name, role_mapping[g][1]))) = 1
        /\ \A a, b \in Range(tower.teams) : a.name = b.name => a = b

\* C18 for the buckets that hold a user
C18_ApartFromEmptyBuckets ==
    (step = "org_populate" /\ use_teams /\ err = "none") =>
        /\ \A i \in DOMAIN projects, g \in DOMAIN role_mapping :
              projects[i].users[role_mapping[g][1]] # <<>> =>
                  /\ TeamAsConfigured(i, role_mapping[g][1])
                  /\ Len(TeamsNamed(TeamName(projects[i].name, role_mapping[g][1]))) = 1
        /\ \A a, b \in Range(tower.teams) : a.name = b.name => a = b

----------------------------------------------------------------------------
(* C19: what the runs delete *)

\* the kinds of entities that are never deleted
Kept == {"organizations", "members", "teams", "workspaces", "credentials", "labels"}

\* C19: every delete request is for a participant of a workspace, a compute
\* environment or a member of a team; no step takes an organization, a
\* member, a team, a workspace, a credential or a label away or changes it,
\* and a second run leaves all that the first run left of these
C19_DeletesOnly ==
    /\ \A i \in DOMAIN log :
          log[i].method = "DELETE" =>
              log[i].path \in {"/participants", "/compute-envs",
                               "/orgs/teams/members/delete"}
    /\ \A kind \in Kept : \A x \in Range(before[kind]) : x \in Range(tower[kind])
    /\ first # <<>> =>
          \A kind \in Kept : \A x \in Range(first.tower[kind]) : x \in Range(tower[kind])

\* cleanup has deleted a compute environment of a workspace that has a
\* credential and a label, and both are still there
C19_Witness ==
    /\ step = "ws_cleanup"
    /\ \E i \in Deletions : log[i].reply = ""
    /\ Len(OfWorkspace(tower.computeEnvs, ws_id)) < Len(EnvsBefore)
    /\ OfWorkspace(tower.credentials, ws_id) # <<>>
    /\ OfWorkspace(tower.labels, ws_id) # <<>>

----------------------------------------------------------------------------
(* C20 *)

\* a project file lacks one of the things a valid one has: a stack name, the
\* tower-project template, a parameters map with one of the two ARN lists
Malformed(config) ==
    \/ "stack_name" \notin DOMAIN config
    \/ "template" \notin DOMAIN config
    \/ "path" \notin DOMAIN config.template
    \/ config.template.path # "tower-project.j2"
    \/ "parameters" \notin DOMAIN config
    \/ /\ "S3ReadWriteAccessArns" \notin DOMAIN config.parameters
       /\ "S3ReadOnlyAccessArns" \notin DOMAIN config.parameters

\* the run has built, or failed to build, its Projects object from files of
\* which one is malformed
LoadedMalformed ==
    /\ step # "start"
    /\ \E i \in DOMAIN configs : Malformed(configs[i])

\* no client was created and no request was issued: the run ended in
\* Projects.__init__, the log is empty and the control plane is as it was
EndedPreflight ==
    /\ step = "projects"
    /\ pc = "failed"
    /\ err # "none"
    /\ projects = <<>>
    /\ log = <<>>
    /\ tower = before

\* C20: when a project file is invalid, InvalidTowerProject is raised while
\* the Projects object is built, before the remote client is created and
\* before any control-plane, stack-output or secret request is issued
C20_Preflight ==
    LoadedMalformed => (EndedPreflight /\ err = "InvalidTowerProject")

\* what remains of C20 where the error is not looked at: the run ends while
\* the Projects object is built, whatever the exception
C20_EndsPreflight == LoadedMalformed => EndedPreflight

\* what remains of C20 where every template of the files has a path
C20_ApartFromTemplatesWithoutPath ==
    (/\ LoadedMalformed
     /\ \A i \in DOMAIN configs :
            "template" \in DOMAIN configs[i] => "path" \in DOMAIN configs[i].template)
        => (EndedPreflight /\ err = "InvalidTowerProject")

\* a run on a second file that is malformed, after a first that is not
C20_Reached ==
    /\ LoadedMalformed
    /\ Len(configs) = 2
    /\ ~Malformed(configs[1])
    /\ EndedPreflight

----------------------------------------------------------------------------
(* C21 *)

\* the project files validate_config was given by the run of main: the
\* files up to the first it rejects
Validated ==
    IF step = "start"
    THEN {}
    ELSE {configs[i] : i \in {j \in DOMAIN configs :
                                \A k \in 1 .. j - 1 : validate_config(configs[k]) = "none"}}

\* C21: validate_config accepts a project file exactly when it has a stack
\* name, the tower-project template and a parameters map with one of the two
\* ARN lists, and raises InvalidTowerProject, and nothing else, for every
\* other file
C21_ValidateConfig ==
    \A config \in Validated :
        /\ validate_config(config) = "none" <=> ~Malformed(config)
        /\ Malformed(config) => validate_config(config) = "InvalidTowerProject"

\* what remains of C21: the files accepted are the well-formed ones, and
\* every file of the five kinds the claim lists (no ARN list, no parameters,
\* another template, no template, no stack name) raises InvalidTowerProject
C21_ApartFromTemplatesWithoutPath ==
    \A config \in Validated :
        /\ validate_config(config) = "none" <=> ~Malformed(config)
        /\ (/\ Malformed(config)
            /\ "template" \in DOMAIN config => "path" \in DOMAIN config.template)
              => validate_config(config) = "InvalidTowerProject"

\* main has validated files of all six malformed kinds and of the valid ones
C21_Reached ==
    /\ step = "projects"
    /\ Len(configs) = 2
    /\ ~Malformed(configs[1])
    /\ Malformed(configs[2])
    /\ "template" \in DOMAIN configs[2]
    /\ "path" \notin DOMAIN configs[2].template
    /\ err = "KeyError"

----------------------------------------------------------------------------
(* C22 *)

\* the paths of the project files of the directory, in its order
ProjectFiles == [i \in DOMAIN configs |-> "config/" \o ProjectNames[i] \o ".yaml"]

\* C22: a dry run issues no request, goes no further than the Projects
\* object (no client, no organization) and leaves the control plane as it
\* was; it prints the paths of the project files, and only when every one of
\* them has passed validation; a run that is not dry prints nothing and goes
\* on to reconcile
C22_DryRun ==
    /\ (dry_run /\ step # "start") =>
          /\ step = "projects"
          /\ pc \in {"done", "failed"}
          /\ log = <<>>
          /\ tower = before
          /\ org_id = None
          /\ pc = "done" =>
                /\ stdout = ProjectFiles
                /\ \A i \in DOMAIN configs : validate_config(configs[i]) = "none"
          /\ pc = "failed" => stdout = <<>>
    /\ (~dry_run /\ step = "projects" /\ err = "none") =>
          /\ pc = "org_create"
          /\ stdout = <<>>
    /\ (~dry_run /\ configs # <<>> /\ pc = "done" /\ first = <<>>) =>
          /\ WorkspacePosts(log, 0) # {}
          /\ \A i \in DOMAIN configs :
                 Len(WorkspacesNamed(tower, configs[i].stack_name)) = 1

\* a dry run has printed the two project files of a directory that holds
\* other files too, on a control plane that has an organization
C22_Witness ==
    /\ dry_run
    /\ pc = "done"
    /\ Len(filenames) = 4
    /\ stdout = <<"config/foo-project.yaml", "config/bar-project.yaml">>
    /\ tower.organizations # <<>>
    /\ tower = OtherOrgTower

----------------------------------------------------------------------------
(* C23 *)

\* the run is one of the older script, past TowerConfigurator.__init__
Configured ==
    \/ InStack
    \/ step \in {"create_tower_organization", "populate_tower_organization", "next_stack"}

\* positions in log of the requests to the control plane
ApiRequests == {i \in DOMAIN log : log[i].method # "AWS"}

\* C23: without the token in the environment TowerConfigurator.__init__
\* raises KeyError and no request is issued to the control plane, which stays
\* as it was; with it the configurator holds the token of the environment
\* and every request to the control plane carries it
C23_Token ==
    Configured =>
        /\ "NXF_TOWER_TOKEN" \notin DOMAIN environ =>
              /\ step = "create_tower_organization"
              /\ pc = "failed"
              /\ err = "KeyError"
              /\ ApiRequests = {}
              /\ tower = before
              /\ tower_token = NoToken
        /\ "NXF_TOWER_TOKEN" \in DOMAIN environ =>
              /\ tower_token = environ["NXF_TOWER_TOKEN"]
              /\ tower_token # NoToken
              /\ ApiRequests # {}
              /\ \A i \in ApiRequests : log[i].auth = environ["NXF_TOWER_TOKEN"]

\* the older script was started without the token and has failed
C23_Witness ==
    /\ Configured
    /\ "NXF_TOWER_TOKEN" \notin DOMAIN environ
    /\ err = "KeyError"
    /\ Len(log) = 1
    /\ log[1].name = "nextflow-r53-alias-record"

\* the older script has ended a run in which GET, PUT and POST requests
\* carried the token
C23_Carried ==
    /\ Configured
    /\ pc = "done"
    /\ err = "none"
    /\ \A m \in {"GET", "PUT", "POST"} : \E i \in ApiRequests : log[i].method = m
    /\ \A i \in ApiRequests : log[i].auth = "token"

----------------------------------------------------------------------------
(* C24 *)

\* the ARNs of the form arn:aws:sts::<acct>:assumed-role/<role>/<email>
ValidArns == {AnnArn, BobArn}

\* the texts after the last '/' of the ARNs, one per ARN, in their order
SessionNames(arns) == [k \in DOMAIN arns |-> Join(rpartition(Spell(arns[k]), "/"))]

\* the lists of ARNs main has extracted emails from, each with the list of
\* emails that extract_emails returned for it
Extracted ==
    IF step = "start" \/ err # "none"
    THEN {}
    ELSE UNION {{<<IF "S3ReadWriteAccessArns" \in DOMAIN configs[i].parameters
                   THEN configs[i].parameters.S3ReadWriteAccessArns
                   ELSE <<>>,
                   projects[i].users.maintainers>>,
                 <<IF "S3ReadOnlyAccessArns" \in DOMAIN configs[i].parameters
                   THEN configs[i].parameters.S3ReadOnlyAccessArns
                   ELSE <<>>,
                   projects[i].users.viewers>>} : i \in DOMAIN configs}

\* C24: for a list of valid ARNs extract_emails returns the session names,
\* one per ARN and in the order of the list; for the empty list, the empty
\* list
C24_ExtractEmails ==
    \A x \in Extracted :
        Range(x[1]) \subseteq ValidArns => x[2] = SessionNames(x[1])

\* what remains of C24: extract_emails returns every session name once, in
\* some order, and extract_emails_from_arns of the older script returns them
\* one per ARN and in the order of the list
C24_ApartFromOrder ==
    \A x \in Extracted :
        Range(x[1]) \subseteq ValidArns =>
            /\ Range(x[2]) = Range(SessionNames(x[1]))
            /\ Len(x[2]) = Cardinality(Range(x[2]))
            /\ extract_emails_from_arns(x[1]) = SessionNames(x[1])

\* extract_emails has returned two emails in the order opposite to that of
\* their ARNs
C24_Reached ==
    \E x \in Extracted :
        /\ x[1] = <<AnnArn, BobArn>>
        /\ x[2] = <<"bob@x.org", "ann@x.org">>

----------------------------------------------------------------------------
(* C25 *)

\* the ARNs of the form ...assumed-role/<role-name>/<session-name>
AssumedRoleArns == {AnnArn, BobArn, OddArns.no_domain, OddArns.bar}

\* chars is local@domain.tld, the last part being two or more letters
WellFormed(chars) ==
    \E a, d \in DOMAIN chars :
        /\ 1 < a
        /\ a + 1 < d
        /\ d + 2 <= Len(chars)
        /\ chars[a] = "@"
        /\ \A i \in DOMAIN chars : chars[i] = "@" => i = a
        /\ chars[d] = "."
        /\ \A i \in d + 1 .. Len(chars) : chars[i] \in Letters

\* the list emails holds nothing but session names of ARNs of arns that
\* have the assumed-role form and a well-formed email as session name, and
\* nothing for an ARN whose last part is not a well-formed email
Identities(arns, emails) ==
    /\ \A j \in DOMAIN emails :
           \E k \in DOMAIN arns :
               /\ emails[j] = SessionNames(arns)[k]
               /\ arns[k] \in AssumedRoleArns
               /\ WellFormed(rpartition(Spell(arns[k]), "/"))
    /\ \A k \in DOMAIN arns :
           ~WellFormed(rpartition(Spell(arns[k]), "/"))
               => SessionNames(arns)[k] \notin Range(emails)

\* C25: every string extract_emails returns is a well-formed email that is
\* the session name of an ARN of the assumed-role form, and an ARN without
\* such a session name adds nothing to the result
C25_NeverMalformed == \A x \in Extracted : Identities(x[1], x[2])

\* what remains of C25: it holds of the lists without an ARN whose last part
\* has a '|', for extract_emails_from_arns of the older script, and for
\* extract_emails when there is no ARN of another form with an email either
C25_ApartFromLaxPatterns ==
    \A x \in Extracted :
        /\ OddArns.bar \notin Range(x[1])
              => Identities(x[1], extract_emails_from_arns(x[1]))
        /\ Range(x[1]) \cap {OddArns.bar, OddArns.user} = {} => Identities(x[1], x[2])

\* extract_emails has returned the last part of an ARN that is not of an
\* assumed role, which extract_emails_from_arns does not return
C25_Reached ==
    \E x \in Extracted :
        /\ x[1] = <<OddArns.user>>
        /\ x[2] = <<"dee@x.org">>
        /\ extract_emails_from_arns(x[1]) = <<>>

\* both scripts have returned a last part that ends in '|'
C25_ReachedBar ==
    \E x \in Extracted :
        /\ x[1] = <<OddArns.bar>>
        /\ Len(x[2]) = 1
        /\ extract_emails_from_arns(x[1]) = x[2]

----------------------------------------------------------------------------
(* C26 *)

\* the ARNs the project files of the run give for maintainers and viewers
ArnsGiven ==
    UNION {(IF "S3ReadWriteAccessArns" \in DOMAIN configs[i].parameters
            THEN Range(configs[i].parameters.S3ReadWriteAccessArns)
            ELSE {})
           \cup (IF "S3ReadOnlyAccessArns" \in DOMAIN configs[i].parameters
                 THEN Range(configs[i].parameters.S3ReadOnlyAccessArns)
                 ELSE {}) : i \in DOMAIN configs}

\* main has built its Projects object from valid project files, or failed to
Extracting ==
    /\ step = "projects"
    /\ \A i \in DOMAIN configs : validate_config(configs[i]) = "none"

\* C26: extract_emails raises ValueError when it is given an ARN that is not
\* an assumed-role ARN ending in an email-shaped session name, and returns
\* nothing
C26_RaisesValueError ==
    (Extracting /\ ~(ArnsGiven \subseteq ValidArns)) =>
        /\ err = "ValueError"
        /\ pc = "failed"
        /\ projects = <<>>

\* what the code does instead: no exception is raised, and the ARNs that are
\* an IAM role, lack a domain or lack a session name are left out of the
\* result
C26_Omitted ==
    Extracting =>
        /\ err = "none"
        /\ \A x \in Extracted :
               \A k \in DOMAIN x[1] :
                   x[1][k] \in {RoleArn, OddArns.no_domain, OddArns.no_session}
                       => SessionNames(x[1])[k] \notin Range(x[2])

\* extract_emails was given an ARN without a domain after a valid one and
\* has returned the email of the valid one
C26_Reached ==
    /\ Extracting
    /\ \E x \in Extracted :
           /\ x[1] = <<AnnArn, OddArns.no_domain>>
           /\ x[2] = <<"ann@x.org">>

----------------------------------------------------------------------------
(* C27 *)

\* chars with each character outside [A-Za-z0-9_-] replaced by '_'
EachReplaced(chars) ==
    Join([i \in DOMAIN chars |-> IF chars[i] \in ValidChars THEN chars[i] ELSE "_"])

\* the tags the claim expects for a project file: those of the file, the
\* value of CostCenter being its last '/'-separated segment without the
\* blanks around it, and the tag TowerProject of the stack, with every
\* character outside the class replaced in keys and values
ExpectedTags(config) ==
    LET given == IF "stack_tags" \in DOMAIN config THEN config.stack_tags ELSE <<>>
    IN [k \in DOMAIN given |->
          <<EachReplaced(Spell(given[k][1])),
            EachReplaced(IF given[k][1] = "CostCenter"
                         THEN strip(rpartition(Spell(given[k][2]), "/"))
                         ELSE Spell(given[k][2]))>>]
       \o << <<"TowerProject", EachReplaced(Spell(config.stack_name))>> >>

\* the project files main has extracted tags from
TagsExtracted == IF step = "start" \/ err # "none" THEN {} ELSE DOMAIN configs

\* C27: after extract_tags the keys and values of the tags of every project
\* hold only characters of [A-Za-z0-9_-], every other character having been
\* replaced by '_', and the value of CostCenter is its last segment
C27_TagsSanitized ==
    \A i \in TagsExtracted : projects[i].tags = ExpectedTags(configs[i])

\* the texts of the tags of a project file
TagTexts(config) ==
    IF "stack_tags" \in DOMAIN config
    THEN UNION {{config.stack_tags[k][1], config.stack_tags[k][2]} :
                  k \in DOMAIN config.stack_tags}
    ELSE {}

\* what remains of C27: it holds of the project files whose tags have none
\* of the characters [ \ ] ^ and no two characters in a row outside the
\* class
C27_ApartFromRunsAndRange ==
    \A i \in TagsExtracted :
        (\A text \in TagTexts(configs[i]) :
            /\ Range(Spell(text)) \cap {"[", "\\", "]", "^"} = {}
            /\ \A k \in 1 .. Len(Spell(text)) - 1 :
                   Spell(text)[k] \in ValidChars \/ Spell(text)[k + 1] \in ValidChars)
          => projects[i].tags = ExpectedTags(configs[i])

\* extract_tags has kept the brackets of a value
C27_Reached ==
    \E i \in TagsExtracted : projects[i].tags = << <<"Lab", "x[1]">>, <<"TowerProject", "foo-project">> >>

\* extract_tags has cut a CostCenter value to its last segment
C27_ReachedCostCenter ==
    \E i \in TagsExtracted :
        /\ "stack_tags" \in DOMAIN configs[i]
        /\ configs[i].stack_tags[1] = <<"CostCenter", "dept/program-42">>
        /\ projects[i].tags[1] = <<"CostCenter", "program-42">>

\* extract_tags has replaced the blank of a key
C27_ReachedKey ==
    \E i \in TagsExtracted :
        /\ "stack_tags" \in DOMAIN configs[i]
        /\ configs[i].stack_tags[1][1] = "Cost Center"
        /\ projects[i].tags[1][1] = "Cost_Center"

----------------------------------------------------------------------------
(* C28: TowerWorkspace.generate_compute_environment *)

\* the name create_compute_environment gives the environment of a model
EnvName(model) ==
    projects[cur].name \o (IF model = "SPOT" THEN "-spot-" ELSE "-ondemand-") \o CE_VERSION

\* C28: generate_compute_environment issues no request and leaves the
\* control plane as it is, and a second call returns what the first returned
C28_GeneratePure ==
    (InWorkspace /\ err = "none") =>
        \A model \in {"SPOT", "EC2"} :
            LET g == generate_compute_environment(S, Self, EnvName(model), model)
                h == generate_compute_environment(g.s, Self, EnvName(model), model)
            IN /\ g.s.log = log
               /\ g.s.tower = tower
               /\ g.s.err = "none" => h.ret = g.ret

\* what remains of C28: generate_compute_environment creates no compute
\* environment and changes nothing but the credentials and the labels of the
\* control plane, and, where no two labels of the workspace have the same
\* name and value, a second call returns what the first returned and creates
\* nothing
C28_ApartFromEnsures ==
    (InWorkspace /\ err = "none") =>
        \A model \in {"SPOT", "EC2"} :
            LET g == generate_compute_environment(S, Self, EnvName(model), model)
                h == generate_compute_environment(g.s, Self, EnvName(model), model)
            IN /\ \A i \in Len(log) + 1 .. Len(g.s.log) :
                      ~Is(g.s.log[i], "POST", "/compute-envs")
               /\ [g.s.tower EXCEPT !.credentials = tower.credentials,
                                    !.labels = tower.labels,
                                    !.seq = tower.seq] = tower
               /\ (/\ g.s.err = "none"
                   /\ \A k, l \in Range(tower.labels) :
                          (k.wsId = l.wsId /\ k.name = l.name /\ k.value = l.value)
                              => k = l)
                    => /\ h.ret = g.ret
                       /\ h.s.tower = g.s.tower

\* generate_compute_environment would create the credential and a label of
\* the workspace that has just been created
C28_Reached ==
    /\ step = "ws_create"
    /\ err = "none"
    /\ LET g == generate_compute_environment(S, Self, EnvName("SPOT"), "SPOT")
       IN /\ g.s.err = "none"
          /\ Len(g.s.tower.credentials) = Len(tower.credentials) + 1
          /\ Len(g.s.tower.labels) = Len(tower.labels) + 1
          /\ LabelPosts(g.s.log, Len(log)) # {}

----------------------------------------------------------------------------
(* Two runs of main against one organization. Each run is a process of its *)
(* own; a request is one step, so that the requests of the two runs can    *)
(* alternate. runs.overlap tells whether the second run may start before   *)
(* the first has ended                                                     *)

Runs == {1, 2}

\* TowerWorkspace.create with a listing that finds nothing
ws_listed_none(listed, name) == <<>>

\* TowerWorkspace.create, "for workspace in response['workspaces']": the
\* listed workspaces of the name
ws_listed(listed, name) == SelectSeq(listed, LAMBDA w : w.name = name)

\* TowerWorkspace.create after the listing that found found
ws_post(s, found, name, full_name) ==
    LET r == RemoteCreateWorkspace(s.tower, [name |-> name, fullName |-> full_name])
    IN IF found # <<>>
       THEN Ok(s, found[1])
       ELSE Ok(Issue(s, Rq("POST", "/orgs/workspaces", None, None, name), r.tower),
               r.response.workspace)

\* TowerWorkspace.create_credentials, "for cred in response['credentials']":
\* the listed credentials named after the stack
credentials_listed(listed, self) ==
    SelectSeq(OfWorkspace(listed, self.id), LAMBDA cred : cred.name = self.stack_name)

\* TowerWorkspace.create_credentials after the listing that found found
credentials_post(s, found, self) ==
    LET stack == get_cfn_stack_outputs(self.stack_name)
        secret == get_secret_value(s, stack.TowerForgeServiceUserAccessKeySecretArn)
        data == [name |-> self.stack_name, provider |-> "aws",
                 accessKey |-> secret.ret.aws_access_key_id,
                 assumeRoleArn |-> stack.TowerForgeServiceRoleArn]
        r == RemoteCreateCredentials(secret.s.tower, self.id, data)
    IN IF found # <<>>
       THEN IF found[1].provider = "aws" /\ ~found[1].deleted
            THEN Ok(s, found[1].id)
            ELSE Raise(s, "AssertionError", None)
       ELSE Ok(Issue(secret.s, Rq("POST", "/credentials", self.id, None, self.stack_name),
                     r.tower),
               r.response.credentialsId)

\* create_compute_environment, the lookup: the listed environment of each
\* model
compute_envs_listed(listed, self) ==
    [SPOT |-> ExistingComputeEnv(OfWorkspace(listed, self.id),
                                 self.stack_name \o "-spot-" \o CE_VERSION),
     EC2 |-> ExistingComputeEnv(OfWorkspace(listed, self.id),
                                self.stack_name \o "-ondemand-" \o CE_VERSION)]

\* the state of run r as the operations take it; log holds the requests of
\* the process of r
RunS(r) ==
    [tower |-> tower, log |-> runs.run[r].log, members |-> runs.run[r].members,
     teamids |-> runs.run[r].teamids, err |-> runs.run[r].err, token |-> tower_token]

\* the TowerWorkspace run r is building
RunSelf(r) == [Self EXCEPT !.id = runs.run[r].ws_id]

NewRun ==
    [pc |-> "org_create", log |-> <<>>, org_id |-> None, members |-> <<>>,
     teamids |-> <<>>, ws_id |-> None, seen |-> <<>>, credentials_id |-> None,
     ce_ids |-> [SPOT |-> None, EC2 |-> None], err |-> "none"]

\* two processes are started on the same project file
InitRuns ==
    \E u \in FewUsersChoices, overlap \in BOOLEAN,
       t \in {EmptyTower, OtherOrgTower,
              OrgTower(AllMembers, <<>>, <<>>, <<>>, <<>>),
              OrgTower(AllMembers, <<>>, <<FooCredential>>, <<>>, <<>>)} :
        /\ tower = t
        /\ log = <<>>
        /\ configs = <<>>
        /\ projects = <<Project(ProjectNames[1], u)>>
        /\ use_teams = FALSE
        /\ org_id = None
        /\ members = <<>>
        /\ teamids = <<>>
        /\ member_ids = <<>>
        /\ cur = 1
        /\ ws_id = None
        /\ ce_ids = [SPOT |-> None, EC2 |-> None]
        /\ workspaces = <<>>
        /\ first = <<>>
        /\ before = t
        /\ mark = 0
        /\ step = "start"
        /\ err = "none"
        /\ pc = "runs"
        /\ dry_run = FALSE
        /\ filenames = <<>>
        /\ stdout = <<>>
        /\ environ = TokenSet
        /\ tower_token = TokenSet["NXF_TOWER_TOKEN"]
        /\ runs = [overlap |-> overlap, run |-> [r \in Runs |-> NewRun]]

\* run r is at position at and may take a step: without overlap the second
\* process is started when the first has ended
At(r, at) ==
    /\ runs.run[r].pc = at
    /\ runs.overlap \/ r = 1 \/ runs.run[1].pc \in {"done", "failed"}

\* a step of run r ended in state s and left the fields local of the run
Step(r, s, local, next) ==
    /\ tower' = s.tower
    /\ runs' = [runs EXCEPT
                  !.run[r] = [local EXCEPT
                                !.log = s.log,
                                !.members = s.members,
                                !.teamids = s.teamids,
                                !.err = s.err,
                                !.pc = IF s.err = "none" THEN next ELSE "failed"]]
    /\ UNCHANGED <<log, dry_run, filenames, stdout, environ, tower_token, configs,
                   projects, use_teams, org_id, members, teamids, member_ids, cur, ws_id,
                   ce_ids, workspaces, first, before, mark, step, err, pc>>

\* TowerOrganization.__init__ up to self.id
RunOrgCreate ==
    \E r \in Runs :
        /\ At(r, "org_create")
        /\ LET s1 == Issue(RunS(r), Rq("AWS", "get_cfn_stack_outputs", None, None,
                                       "nextflow-vpc"), tower)
               o == org_create(s1, ORG_NAME)
           IN Step(r, o.s, [runs.run[r] EXCEPT !.org_id = o.ret.orgId], "org_populate")

\* TowerOrganization.populate
RunOrgPopulate ==
    \E r \in Runs :
        /\ At(r, "org_populate")
        /\ Step(r, org_populate(RunS(r), projects).s, runs.run[r], "ws_list")

\* TowerWorkspace.create, the request that lists the workspaces
RunWsList ==
    \E r \in Runs :
        /\ At(r, "ws_list")
        /\ LET s1 == Issue(RunS(r), Rq("AWS", "get_cfn_stack_outputs", None, None,
                                       projects[cur].name), tower)
           IN Step(r, Issue(s1, Rq("GET", "/orgs/workspaces", None, None, ""), tower),
                   [runs.run[r] EXCEPT
                      !.seen = ws_listed(tower.workspaces,
                                         get_valid_name(projects[cur].name))],
                   "ws_post")

\* TowerWorkspace.create, what follows the listing
RunWsPost ==
    \E r \in Runs :
        /\ At(r, "ws_post")
        /\ LET w == ws_post(RunS(r), runs.run[r].seen,
                            get_valid_name(projects[cur].name), projects[cur].name)
           IN Step(r, w.s, [runs.run[r] EXCEPT !.ws_id = w.ret.id], "ws_populate")

\* TowerWorkspace.populate
RunWsPopulate ==
    \E r \in Runs :
        /\ At(r, "ws_populate")
        /\ Step(r, ws_populate(RunS(r), RunSelf(r)).s, runs.run[r], "ws_cleanup")

\* TowerWorkspace.cleanup_compute_environments, then
\* "if self.has_launchers()"
RunWsCleanup ==
    \E r \in Runs :
        /\ At(r, "ws_cleanup")
        /\ Step(r, cleanup_compute_environments(RunS(r), RunSelf(r)).s, runs.run[r],
                IF has_launchers(RunSelf(r)) THEN "ce_list" ELSE "done")

\* create_compute_environment, the request that lists the environments
RunCeList ==
    \E r \in Runs :
        /\ At(r, "ce_list")
        /\ LET seen == compute_envs_listed(tower.computeEnvs, RunSelf(r))
           IN Step(r, Issue(RunS(r), Rq("GET", "/compute-envs", runs.run[r].ws_id, None, ""),
                            tower),
                   [runs.run[r] EXCEPT !.seen = seen, !.ce_ids = seen],
                   IF seen.SPOT = None THEN "cred_list" ELSE "ec2")

\* create_credentials, called by generate_compute_environment for the SPOT
\* environment: the request that lists the credentials
RunCredList ==
    \E r \in Runs :
        /\ At(r, "cred_list")
        /\ Step(r, Issue(RunS(r), Rq("GET", "/credentials", runs.run[r].ws_id, None, ""),
                         tower),
                [runs.run[r] EXCEPT
                   !.seen = credentials_listed(tower.credentials, RunSelf(r))],
                "cred_post")

\* create_credentials, what follows the listing
RunCredPost ==
    \E r \in Runs :
        /\ At(r, "cred_post")
        /\ LET c == credentials_post(RunS(r), runs.run[r].seen, RunSelf(r))
           IN Step(r, c.s, [runs.run[r] EXCEPT !.credentials_id = c.ret], "spot_post")

\* generate_compute_environment after create_credentials, and the request
\* for the SPOT environment, which is made the primary one
RunSpotPost ==
    \E r \in Runs :
        /\ At(r, "spot_post")
        /\ LET self == RunSelf(r)
               g == generate_with_credentials(
                        Ok(RunS(r), runs.run[r].credentials_id), self,
                        self.stack_name \o "-spot-" \o CE_VERSION, "SPOT")
               p == post_compute_environment(g, self, TRUE)
           IN Step(r, p.s, [runs.run[r] EXCEPT !.ce_ids.SPOT = p.ret], "ec2")

\* create_compute_environment, 'if compute_env_ids["EC2"] is None'
RunEc2 ==
    \E r \in Runs :
        /\ At(r, "ec2")
        /\ LET e == ensure_ec2(RunS(r), RunSelf(r), runs.run[r].ce_ids.EC2)
           IN Step(r, e.s, [runs.run[r] EXCEPT !.ce_ids.EC2 = e.ret], "done")

NextRuns ==
    \/ RunOrgCreate
    \/ RunOrgPopulate
    \/ RunWsList
    \/ RunWsPost
    \/ RunWsPopulate
    \/ RunWsCleanup
    \/ RunCeList
    \/ RunCredList
    \/ RunCredPost
    \/ RunSpotPost
    \/ RunEc2

SpecRuns == InitRuns /\ [][NextRuns]_vars

----------------------------------------------------------------------------
(* C29: uniqueness per name and overlapping runs *)

\* two entries of seq have the same key
Twice(seq, key(_)) ==
    \E i, j \in DOMAIN seq : i < j /\ key(seq[i]) = key(seq[j])

TwoWorkspaces == Twice(tower.workspaces, LAMBDA w : w.name)

TwoCredentials == Twice(tower.credentials, LAMBDA c : <<c.wsId, c.name>>)

TwoComputeEnvs == Twice(tower.computeEnvs, LAMBDA ce : <<ce.wsId, ce.name>>)

\* both processes have ended without an exception
BothDone == \A r \in Runs : runs.run[r].pc = "done" /\ runs.run[r].err = "none"

C29_ReachedInWorkspace ==
    /\ runs.overlap
    /\ BothDone
    /\ runs.run[1].ws_id = runs.run[2].ws_id
    /\ TwoCredentials
    /\ TwoComputeEnvs

\* two runs one after the other have ended and each found what the other left
C29_ReachedSequential ==
    /\ ~runs.overlap
    /\ BothDone
    /\ runs.run[1].ws_id = runs.run[2].ws_id
    /\ runs.run[1].ce_ids = runs.run[2].ce_ids
    /\ runs.run[1].ce_ids.SPOT # None
    /\ Len(tower.workspaces) = 1

----------------------------------------------------------------------------
(* C30: class Users *)

BucketOrder == <<"owners", "admins", "maintainers", "launchers", "viewers">>

RoleOfBucket ==
    [owners |-> "owner", admins |-> "admin", maintainers |-> "maintain",
     launchers |-> "launch", viewers |-> "view"]

\* the number of entries of the buckets before the g-th
RECURSIVE EntriesBefore(_, _)
EntriesBefore(users, g) ==
    IF g = 1 THEN 0 ELSE EntriesBefore(users, g - 1) + Len(users[BucketOrder[g - 1]])

\* list_users yields, bucket after bucket in BucketOrder, one triple for
\* every entry of the bucket, with the role of the bucket, and nothing else
ListedInOrder(users) ==
    /\ Len(list_users(users)) = EntriesBefore(users, Len(BucketOrder) + 1)
    /\ \A g \in DOMAIN BucketOrder :
          \A i \in DOMAIN users[BucketOrder[g]] :
              list_users(users)[EntriesBefore(users, g) + i]
                  = <<users[BucketOrder[g]][i], BucketOrder[g], RoleOfBucket[BucketOrder[g]]>>

\* C30: the Users of every project have the five buckets; those made from a
\* project file, which gives maintainers and viewers only, have no owner,
\* admin or launcher; list_users yields one triple <<email, bucket, role>>
\* per entry of each bucket, as many as the buckets have entries, in the
\* order owners, admins, maintainers, launchers, viewers, with roles owner,
\* admin, maintain, launch, view
C30_ListUsers ==
    \A i \in DOMAIN projects :
        /\ DOMAIN projects[i].users = Range(BucketOrder)
        /\ configs # <<>> =>
              /\ projects[i].users.owners = <<>>
              /\ projects[i].users.admins = <<>>
              /\ projects[i].users.launchers = <<>>
              /\ projects[i].users
                     = Users_init([maintainers |-> projects[i].users.maintainers,
                                   viewers |-> projects[i].users.viewers])
        /\ ListedInOrder(projects[i].users)

\* populate has listed the users of a project that has an owner and a
\* viewer and has added both
C30_Witness ==
    /\ step = "ws_populate"
    /\ err = "none"
    /\ projects[cur].users.owners # <<>>
    /\ projects[cur].users.viewers # <<>>
    /\ Len(list_users(projects[cur].users)) = 2
    /\ list_users(projects[cur].users)[1][3] = "owner"
    /\ list_users(projects[cur].users)[2][3] = "view"

\* the users of a project read from a file are listed: maintainers, then
\* viewers
C30_ReachedLoaded ==
    /\ step = "ws_populate"
    /\ err = "none"
    /\ configs # <<>>
    /\ projects[cur].users.maintainers # <<>>
    /\ projects[cur].users.viewers # <<>>
    /\ list_users(projects[cur].users)[1][2] = "maintainers"
    /\ list_users(projects[cur].users)[Len(list_users(projects[cur].users))][2] = "viewers"

----------------------------------------------------------------------------
(* C31: the primary compute environment *)

\* positions in log of the last step's requests to create an environment
AllCreations == Creations("SPOT") \cup Creations("EC2")

\* positions in log of the last step's requests to mark an environment as
\* the primary one
PrimaryRequests == {i \in Last : Is(log[i], "POST", "/compute-envs/primary")}

\* the pricing model of the environment the request of position i asks for
ModelAt(i) == IF i \in Creations("SPOT") THEN "SPOT" ELSE "EC2"

\* the first request of the last step to create an environment
FirstCreation == CHOOSE i \in AllCreations : \A j \in AllCreations : i <= j

CreatedIds == {ce.id : ce \in Range(tower.computeEnvs)} \ {ce.id : ce \in Range(before.computeEnvs)}

\* C31: when create_compute_environment has created an environment, the first
\* it created has been marked primary by a later request, whichever its
\* pricing model, and no environment it did not create has been marked
C31_FirstCreatedPrimary ==
    (step = "ws_compute" /\ err = "none") =>
        /\ AllCreations # {} =>
              \E j \in PrimaryRequests :
                  j > FirstCreation /\ log[j].id = ce_ids[ModelAt(FirstCreation)]
        /\ \A j \in PrimaryRequests : log[j].id \in CreatedIds

\* what remains of C31: the SPOT environment, when created, is marked primary
\* by the request that follows its creation; nothing else is ever marked, so
\* an on-demand environment created next to a SPOT one that was there is not
C31_ApartFromOnDemand ==
    (step = "ws_compute" /\ err = "none") =>
        /\ \A i \in Creations("SPOT") :
              /\ i + 1 \in PrimaryRequests
              /\ log[i + 1].id = ce_ids["SPOT"]
              /\ \E ce \in Range(tower.computeEnvs) : ce.id = ce_ids["SPOT"] /\ ce.primary
        /\ \A j \in PrimaryRequests :
              /\ j - 1 \in Creations("SPOT")
              /\ log[j].id \in CreatedIds
        /\ Cardinality(PrimaryRequests) <= 1

\* the run created the on-demand environment only, and marked nothing
C31_Reached ==
    /\ step = "ws_compute"
    /\ err = "none"
    /\ Creations("SPOT") = {}
    /\ Creations("EC2") # {}
    /\ PrimaryRequests = {}
    /\ \E ce \in Range(tower.computeEnvs) : ce.id = ce_ids["EC2"] /\ ~ce.primary

\* the run created both environments and marked the SPOT one
C31_ReachedBoth ==
    /\ step = "ws_compute"
    /\ err = "none"
    /\ Creations("SPOT") # {}
    /\ Creations("EC2") # {}
    /\ PrimaryRequests # {}

----------------------------------------------------------------------------
(* Runs of main repeated on the same configuration, as a scheduler starts  *)
(* them: a run that has ended, with or without an exception, is followed   *)
(* by another; meanwhile jobs start and finish in the compute environments *)

\* the workspaces of foo-project and bar-project exist; the first has the
\* credentials creds and the environments envs, the second the environment
\* other
TwoWorkspaceTower(creds, envs, other) ==
    [OrgTower(AllMembers, <<>>, creds, envs, <<>>) EXCEPT
       !.workspaces = @ \o <<[id |-> 2, name |-> "bar-project",
                              fullName |-> "bar-project"]>>,
       !.participants = @ \o <<Participant(2, 7, 1, None, "owner")>>,
       !.computeEnvs = @ \o other,
       !.seq.ws = 2,
       !.seq.part = 7,
       !.seq.ce = 9]

RepeatEnvChoices ==
    {<<>>,
     <<ComputeEnv(1, 1, "foo-project-spot-v11", "aws-batch", "AVAILABLE", "SPOT", TRUE)>>,
     <<ComputeEnv(1, 4, "foo-project-spot-" \o CE_VERSION, "aws-batch", "AVAILABLE",
                  "SPOT", TRUE)>>}

RepeatOtherChoices ==
    {<<>>,
     <<ComputeEnv(2, 9, "bar-project-spot-v11", "aws-batch", "AVAILABLE", "SPOT", FALSE)>>}

InitRepeat ==
    \E u \in {Users(<<>>, <<>>, <<"ann@x.org">>, <<>>, <<"bob@x.org">>),
              Users(<<>>, <<>>, <<>>, <<>>, <<"ann@x.org">>)},
       creds \in {<<FooCredential>>, <<Credential(1, 1, "foo-project", "google", FALSE)>>},
       envs \in RepeatEnvChoices, other \in RepeatOtherChoices :
        Start(TwoWorkspaceTower(creds, envs, other),
              <<Project(ProjectNames[1], u)>> \o OtherProjects(2), FALSE, "org_create")

\* the process has ended; main is started again, by a new process, with the
\* same project configuration
Again ==
    /\ pc \in {"done", "failed"}
    /\ log' = <<>>
    /\ org_id' = None
    /\ members' = <<>>
    /\ teamids' = <<>>
    /\ cur' = 0
    /\ ws_id' = None
    /\ ce_ids' = [SPOT |-> None, EC2 |-> None]
    /\ workspaces' = <<>>
    /\ before' = tower
    /\ mark' = 0
    /\ step' = "start"
    /\ err' = "none"
    /\ pc' = "org_create"
    /\ UNCHANGED <<runs, tower, first, dry_run, filenames, stdout, environ, tower_token,
                   configs, projects, use_teams, member_ids>>

\* the environment at position i of the control plane, with jobs or without
WithJobs(i, jobs) == [tower EXCEPT !.computeEnvs[i].activeJobs = jobs]

RemoteLeaves ==
    UNCHANGED <<runs, log, dry_run, filenames, stdout, environ, tower_token, configs,
                projects, use_teams, org_id, members, teamids, member_ids, cur, ws_id,
                ce_ids, workspaces, first, before, mark, step, err, pc>>

\* the control plane: the jobs of an environment have finished
JobsFinish ==
    /\ \E i \in DOMAIN tower.computeEnvs :
          /\ tower.computeEnvs[i].activeJobs
          /\ tower' = WithJobs(i, FALSE)
    /\ RemoteLeaves

\* the control plane: a job has been launched in an available environment
JobsStart ==
    /\ \E i \in DOMAIN tower.computeEnvs :
          /\ ~tower.computeEnvs[i].activeJobs
          /\ tower.computeEnvs[i].status = "AVAILABLE"
          /\ tower' = WithJobs(i, TRUE)
    /\ RemoteLeaves

\* a step of the process that runs main, or the start of the next process
RunStep ==
    \/ OrgCreate
    \/ OrgPopulate
    \/ WsCreate
    \/ WsPopulate
    \/ WsCleanup
    \/ WsCreateComputeEnvironment
    \/ WsNoLaunchers
    \/ Sleep
    \/ Again

NextRepeat ==
    \/ RunStep
    \/ JobsFinish
    \/ JobsStart

\* a process that can take a step takes it, and a process that has ended is
\* followed by another. In every position one step of the process is enabled
\* and it changes the position, and no step of the control plane does, so
\* that for populate, cleanup and create_compute_environment weak fairness
\* is stated as: the process does not stay in the position for ever
RunsOn ==
    /\ WF_vars(OrgCreate)
    /\ []<>(pc # "org_populate")
    /\ WF_vars(WsCreate)
    /\ []<>(pc # "ws_populate")
    /\ []<>(pc # "ws_cleanup")
    /\ []<>(pc # "ws_compute")
    /\ WF_vars(Sleep)
    /\ WF_vars(Again)

SpecRepeat == InitRepeat /\ [][NextRepeat]_vars /\ RunsOn

----------------------------------------------------------------------------
(* C32: stale compute environments are reclaimed, never while in use *)

EnvIds == {1, 4, 9}

\* ce is an environment of the workspace of a configured project and
\* cleanup_compute_environments does not keep it: its name does not end with
\* the version, or the project has no user who may launch
Stale(ce) ==
    \E i \in DOMAIN projects :
        /\ \E w \in Range(tower.workspaces) :
              w.id = ce.wsId /\ w.name = get_valid_name(projects[i].name)
        /\ \/ ~endswith(ce.name, CE_VERSION)
           \/ ~has_launchers([users |-> <<projects[i].users>>, teams |-> <<>>])

StalePresent(id) == \E ce \in Range(tower.computeEnvs) : ce.id = id /\ Stale(ce)

Busy(id) == \E ce \in Range(tower.computeEnvs) : ce.id = id /\ ce.activeJobs

\* no step removes an environment that has active jobs
NeverWhileInUse ==
    [][\A ce \in Range(tower.computeEnvs) :
          ce.activeJobs => \E kept \in Range(tower'.computeEnvs) : kept.id = ce.id]_vars

\* a run ends without an exception
Completed == pc = "done" /\ err = "none"

\* C32: under repeated runs, a stale environment whose jobs finish for good
\* is deleted in the end, and no environment is removed while it has active
\* jobs
C32_Reclaimed ==
    /\ \A id \in EnvIds : (<>[](~Busy(id))) => <>(~StalePresent(id))
    /\ NeverWhileInUse

\* what remains of C32: where runs keep ending without an exception, a stale
\* environment whose jobs finish for good is deleted in the end; and no
\* environment is ever removed while it has active jobs
C32_ApartFromHaltedRuns ==
    /\ \A id \in EnvIds :
          ([]<>Completed /\ <>[](~Busy(id))) => <>(~StalePresent(id))
    /\ NeverWhileInUse

\* a run has ended with the assertion of create_credentials for the first
\* project while the workspace of the second holds a stale environment
\* without jobs
C32_Reached ==
    /\ pc = "failed"
    /\ err = "AssertionError"
    /\ cur = 1
    /\ StalePresent(9)
    /\ ~Busy(9)

\* cleanup has deleted a stale environment whose jobs had finished
C32_ReachedReclaimed ==
    /\ step = "ws_cleanup"
    /\ \E ce \in Range(before.computeEnvs) :
          /\ ce.id = 1
          /\ ~ce.activeJobs
          /\ ~StalePresent(1)
    /\ \E i \in Last : Is(log[i], "DELETE", "/compute-envs") /\ log[i].id = 1

----------------------------------------------------------------------------
(* C33: the order of the requests of a run *)

\* the place of a request in the order of a run: 1 the organization, 2 its
\* members and teams, 3 the workspace, 4 participants added and given a
\* role, 5 participants removed, 6 environments cleaned up (and looked up),
\* 7 credentials and labels, 8 environments created; 0 for what is no
\* request to the control plane (stack outputs, printed messages)
Rank(rq) ==
    CASE rq.path = "/orgs" -> 1
      [] rq.path \in {"/orgs/members", "/orgs/members/add", "/orgs/teams",
                      "/orgs/teams/members", "/orgs/teams/members/delete"} -> 2
      [] rq.path = "/orgs/workspaces" -> 3
      [] rq.path \in {"/participants", "/participants/add", "/participants/role"}
             /\ rq.method # "DELETE" -> 4
      [] rq.path = "/participants" /\ rq.method = "DELETE" -> 5
      [] rq.path = "/compute-envs" /\ rq.method \in {"GET", "DELETE"} -> 6
      [] rq.path \in {"/credentials", "/labels", "get_secret_value"} -> 7
      [] rq.path = "/compute-envs" /\ rq.method = "POST" -> 8
      [] rq.path = "/compute-envs/primary" -> 8
      [] OTHER -> 0

\* the number of workspaces the run has begun when it issues request i
Segment(i) == Cardinality({k \in 1 .. i : Is(log[k], "GET", "/orgs/workspaces")})

Ranked == {i \in DOMAIN log : Rank(log[i]) # 0}

\* C33: the requests of a run that has ended, with or without an exception,
\* have come in one order: the organization, then its members and teams,
\* every user of every project being looked up and added if need be, then
\* the workspaces one after another; for each
\* workspace the lookup and creation, then participants added, each
\* addition followed by the request that sets the role before anything else
\* is added or removed, then participants removed, then the cleanup of
\* compute environments, then credentials (and labels), then the creation of
\* an environment; the only step back is that credentials and labels are
\* ensured again before the second environment of a workspace is created
C33_Order ==
    pc \in {"done", "failed"} =>
        /\ \A i, j \in Ranked :
              i < j =>
                  /\ Rank(log[j]) <= 2 => Rank(log[i]) <= Rank(log[j])
                  /\ (Segment(i) = Segment(j) /\ Rank(log[j]) < Rank(log[i])) =>
                        Rank(log[i]) = 8 /\ Rank(log[j]) = 7
                  /\ (/\ Rank(log[i]) > 3
                      /\ Rank(log[j]) > 3
                      /\ log[i].method # "AWS"
                      /\ log[j].method # "AWS") =>
                        (Segment(i) = Segment(j) <=> log[i].ws = log[j].ws)
        /\ \A j \in Ranked :
              Is(log[j], "POST", "/compute-envs") =>
                  \E i \in 1 .. j - 1 :
                      /\ Is(log[i], "GET", "/credentials")
                      /\ log[i].ws = log[j].ws
                      /\ \A k \in i .. j - 1 : Rank(log[k]) \in {0, 7}
        /\ \A p \in DOMAIN projects :
              \A u \in DOMAIN list_users(projects[p].users) :
                  \A j \in Ranked :
                      Rank(log[j]) >= 3 =>
                          \E i \in 1 .. j - 1 :
                              /\ log[i].path \in {"/orgs/members", "/orgs/members/add"}
                              /\ log[i].name = list_users(projects[p].users)[u][1]
        /\ \A i \in Ranked :
              (/\ Is(log[i], "PUT", "/participants/add")
               /\ err = "none" \/ \E j \in Ranked : j > i /\ Rank(log[j]) > 4) =>
                  \E j \in Ranked :
                      /\ j > i
                      /\ Is(log[j], "PUT", "/participants/role")
                      /\ log[j].ws = log[i].ws
                      /\ \A k \in i + 1 .. j - 1 : Is(log[k], "GET", "/participants")

\* a run over two projects has ended: in the first workspace it deleted an
\* environment and created credentials and both environments; then it built
\* the second workspace with its environments
C33_Witness ==
    /\ pc = "done"
    /\ err = "none"
    /\ Len(projects) = 2
    /\ \E d \in Ranked : Rank(log[d]) = 6 /\ log[d].method = "DELETE" /\ Segment(d) = 1
    /\ \E c \in Ranked : Is(log[c], "POST", "/credentials") /\ Segment(c) = 1
    /\ Cardinality({i \in Ranked : Is(log[i], "POST", "/compute-envs") /\ Segment(i) = 1}) = 2
    /\ \E i \in Ranked : Segment(i) = 2 /\ Rank(log[i]) = 8

\* a run has removed a participant after it added another
C33_ReachedRemoval ==
    /\ err = "none"
    /\ \E i, j \in Ranked :
          /\ i < j
          /\ Is(log[i], "PUT", "/participants/add")
          /\ Is(log[j], "DELETE", "/participants")

----------------------------------------------------------------------------
(* C34: the pause of create_workspaces *)

\* positions in log of the requests to delete a compute environment
EnvDeletions == Requests("DELETE", "/compute-envs")

\* positions in log of the requests to create a compute environment
EnvCreations == Requests("POST", "/compute-envs")

\* the run has paused between the requests of positions i and j
PausedBetween(i, j) == \E k \in i .. j : Is(log[k], "SLEEP", "time.sleep")

\* C34: no request to create a compute environment follows a request to
\* delete one without a pause of the run in between
C34_PauseBetween ==
    \A i \in EnvDeletions, j \in EnvCreations : i < j => PausedBetween(i, j)

\* what remains of C34: the run pauses after each workspace, so that a
\* creation in one workspace is separated by a pause from the deletions in
\* the workspaces built before it, and by none from the deletions in its own
C34_ApartFromOwnWorkspace ==
    \A i \in EnvDeletions, j \in EnvCreations :
        i < j => (PausedBetween(i, j) <=> log[i].ws # log[j].ws)

\* a workspace has been built: an environment of an old version was deleted
\* and the new ones were asked for at once
C34_Reached ==
    /\ step = "ws_compute"
    /\ err = "none"
    /\ \E i \in EnvDeletions :
          /\ log[i].ws = ws_id
          /\ log[i].reply = ""
          /\ \A k \in i .. Len(log) : ~Is(log[k], "SLEEP", "time.sleep")
    /\ Creations("SPOT") # {}

\* an environment was deleted in one workspace and one created in the next,
\* after the pause
C34_ReachedNext ==
    /\ step = "ws_compute"
    /\ err = "none"
    /\ \E i \in EnvDeletions : log[i].ws # ws_id
    /\ Creations("SPOT") # {}

----------------------------------------------------------------------------
(* C35: names and allocation strategies of the compute environments *)

\* the environments the last step created
CreatedEnvs == {ce \in Range(tower.computeEnvs) : ce.id \in CreatedIds}

\* C35: an environment that create_compute_environment has created is named
\* <stack>-spot-<version> when its model is SPOT and <stack>-ondemand-<version>
\* when it is EC2, for foo-project and v12 foo-project-spot-v12 and
\* foo-project-ondemand-v12; the two environments the call returns have
\* different names; and the request object generated for the name and the
\* model has the strategy SPOT_CAPACITY_OPTIMIZED for SPOT and BEST_FIT for
\* EC2
C35_NamesAndStrategies ==
    /\ (step = "ws_compute" /\ err = "none") =>
          /\ \A ce \in CreatedEnvs :
                /\ ce.type \in {"SPOT", "EC2"}
                /\ ce.type = "SPOT" => ce.name = projects[cur].name \o "-spot-" \o CE_VERSION
                /\ ce.type = "EC2" => ce.name = projects[cur].name \o "-ondemand-" \o CE_VERSION
                /\ (projects[cur].name = "foo-project" /\ CE_VERSION = "v12") =>
                      ce.name = IF ce.type = "SPOT" THEN "foo-project-spot-v12"
                                ELSE "foo-project-ondemand-v12"
          /\ \A a, b \in Range(tower.computeEnvs) :
                (a.id = ce_ids["SPOT"] /\ b.id = ce_ids["EC2"]) => a.name # b.name
    /\ (InWorkspace /\ err = "none") =>
          \A model \in {"SPOT", "EC2"} :
              LET g == generate_compute_environment(S, Self, EnvName(model), model)
              IN g.s.err = "none" =>
                    /\ g.ret.computeEnv.name = EnvName(model)
                    /\ g.ret.computeEnv.config.forge.type = model
                    /\ g.ret.computeEnv.config.forge.allocStrategy
                           = IF model = "SPOT" THEN "SPOT_CAPACITY_OPTIMIZED"
                             ELSE "BEST_FIT"

\* create_compute_environment has created both environments of foo-project
C35_Witness ==
    /\ step = "ws_compute"
    /\ err = "none"
    /\ projects[cur].name = "foo-project"
    /\ \E a, b \in CreatedEnvs :
          /\ a.id = ce_ids["SPOT"]
          /\ a.name = "foo-project-spot-v12"
          /\ b.id = ce_ids["EC2"]
          /\ b.name = "foo-project-ondemand-v12"

----------------------------------------------------------------------------
(* C36: the compute environments of a workspace after a run *)

\* the environments of the workspace being built, now and when the last step
\* started
EnvsNow == Range(OfWorkspace(tower.computeEnvs, ws_id))

EnvsKept == Range(OfWorkspace(before.computeEnvs, ws_id))

\* create_compute_environment has returned for a workspace with a user who
\* may launch, and no environment of the workspace has active jobs
Settled ==
    /\ step = "ws_compute"
    /\ err = "none"
    /\ \A ce \in EnvsNow : ~ce.activeJobs

\* C36: after cleanup and creation the workspace holds two environments, the
\* one named <stack>-spot-<version> and the one named
\* <stack>-ondemand-<version>
C36_Converges ==
    Settled =>
        /\ Cardinality(EnvsNow) = 2
        /\ {ce.name : ce \in EnvsNow} = {EnvName("SPOT"), EnvName("EC2")}

\* what remains of C36: cleanup has left the environments whose name ends
\* with the version and no other; every environment left is still there, and
\* one serving environment of each of the two names is there and returned;
\* exactly these two are there when every environment left was a serving
\* environment of one of the two names, one at most of each name
C36_ApartFromKept ==
    Settled =>
        /\ \A ce \in EnvsKept : endswith(ce.name, CE_VERSION)
        /\ EnvsKept \subseteq EnvsNow
        /\ \A model \in {"SPOT", "EC2"} :
              \E ce \in EnvsNow : Serves(ce, model) /\ ce.id = ce_ids[model]
        /\ (/\ \A ce \in EnvsKept : Serves(ce, "SPOT") \/ Serves(ce, "EC2")
            /\ \A a, b \in EnvsKept : a.name = b.name => a = b)
              => /\ Cardinality(EnvsNow) = 2
                 /\ {ce.name : ce \in EnvsNow} = {EnvName("SPOT"), EnvName("EC2")}

\* an environment with the name of the on-demand one and status ERRORED was
\* left by cleanup, and a second one of that name has been created
C36_Reached ==
    /\ Settled
    /\ \E a, b \in EnvsNow :
          /\ a.name = b.name
          /\ a.status = "ERRORED"
          /\ b.id = ce_ids["EC2"]
          /\ b.id \in CreatedIds

\* the workspace held environments of an old version only and holds the two
\* new ones
C36_ReachedTwo ==
    /\ Settled
    /\ EnvsKept = {}
    /\ Cardinality(EnvsNow) = 2
    /\ \E i \in Requests("DELETE", "/compute-envs") : log[i].ws = ws_id

----------------------------------------------------------------------------
(* C37: the participant add_participant resolves *)

\* the call a of add_participant has returned a participant of the member
\* (team_id = None) or of the team (member_id = None) and has asked for the
\* role of that participant to be set
ResolvedFor(a, member_id, team_id) ==
    a.s.err = "none" =>
        /\ a.ret.memberId = member_id
        /\ a.ret.teamId = team_id
        /\ LET rq == a.s.log[Len(a.s.log)]
           IN /\ Is(rq, "PUT", "/participants/role")
              /\ \E p \in Range(OfWorkspace(a.s.tower.participants, ws_id)) :
                    /\ p.participantId = rq.id
                    /\ p.memberId = member_id
                    /\ p.teamId = team_id

\* add_participant resolves, for every member and for every team, a
\* participant of its own
ResolvesOwn ==
    /\ \A user \in DOMAIN members :
          ResolvedFor(add_participant(S, Self, "maintain", user, None),
                      members[user].memberId, None)
    /\ \A t \in Range(tower.teams) :
          ResolvedFor(add_participant(S, Self, "view", "", t.teamId), None, t.teamId)

\* C37: in every workspace, whatever the ids of the members and of the
\* teams, add_participant for a user resolves a participant with the
\* memberId of the user, add_participant for a team one with the teamId of
\* the team, and the role is set on that participant
C37_ResolvesOwnKind == (InWorkspace /\ err = "none") => ResolvesOwn

\* no participant of the workspace being built is the participant of a team
\* with this member id, or of a member with this team id
IdApart(member_id, team_id) ==
    \A p \in Range(Participants) : p.teamId # member_id /\ p.memberId # team_id

\* what remains of C37: add_participant resolves a participant of the member
\* where no team that takes part has the id of the member, and a participant
\* of the team where no member who takes part has the id of the team
C37_ApartFromSharedIds ==
    (InWorkspace /\ err = "none") =>
        /\ \A user \in DOMAIN members :
              IdApart(members[user].memberId, None) =>
                  ResolvedFor(add_participant(S, Self, "maintain", user, None),
                              members[user].memberId, None)
        /\ \A t \in Range(tower.teams) :
              IdApart(None, t.teamId) =>
                  ResolvedFor(add_participant(S, Self, "view", "", t.teamId),
                              None, t.teamId)

\* the workspace has a participant for a team whose id is the member id of a
\* user, and none for the user: add_participant for the user returns the
\* participant of the team
C37_Reached ==
    /\ InWorkspace
    /\ err = "none"
    /\ \E user \in DOMAIN members, p \in Range(Participants) :
          /\ p.teamId = members[user].memberId
          /\ \A q \in Range(Participants) : q.memberId # members[user].memberId
          /\ add_participant(S, Self, "maintain", user, None).ret = p

\* member ids and team ids are apart, the workspace has a participant for a
\* team and one for a user
C37_ReachedApart ==
    /\ InWorkspace
    /\ err = "none"
    /\ \E p, q \in Range(Participants), user \in DOMAIN members :
          /\ p.teamId # None
          /\ IdApart(members[user].memberId, p.teamId)
          /\ q.memberId = members[user].memberId
          /\ add_participant(S, Self, "maintain", user, None).ret = q
          /\ add_participant(S, Self, "view", "", p.teamId).ret = p

----------------------------------------------------------------------------
(* C38: a user in more than one bucket of a project *)

\* positions in Desired of the user
EntriesOf(user) == {i \in DOMAIN Desired : Desired[i][1] = user}

\* the users of the project being built who sit in more than one bucket
InSeveralBuckets ==
    {Desired[i][1] : i \in {j \in DOMAIN Desired : Cardinality(EntriesOf(Desired[j][1])) > 1}}

\* the role of the last bucket, in the order of list_users, that holds user
LastRole(user) ==
    Desired[CHOOSE i \in EntriesOf(user) : \A j \in EntriesOf(user) : j <= i][3]

\* the roles the last step asked to set, in the order of the requests
RolesSet ==
    LET rqs == SelectSeq(SubSeq(log, mark + 1, Len(log)),
                         LAMBDA rq : Is(rq, "PUT", "/participants/role"))
    IN [i \in DOMAIN rqs |-> rqs[i].name]

\* the participants of the workspace being built that stand for user
ParticipantsOf(user) ==
    {p \in Range(Participants) : p.memberId = members[user].memberId}

\* the additions the last step has asked for user
AdditionsOf(user) ==
    {i \in Last : Is(log[i], "PUT", "/participants/add") /\ log[i].name = user}

\* C38: populate, for a project with a user in several buckets, returns
\* having asked for one role per entry of list_users in that order, with at
\* most one addition for the user; the user has one participant, and its
\* role is that of the last bucket that holds the user
C38_LastBucketWins ==
    (step = "ws_populate" /\ ~use_teams /\ InSeveralBuckets # {}) =>
        /\ err = "none"
        /\ RolesSet = [i \in DOMAIN Desired |-> Desired[i][3]]
        /\ \A user \in InSeveralBuckets :
              /\ Cardinality(AdditionsOf(user)) <= 1
              /\ Cardinality(ParticipantsOf(user)) = 1
              /\ \A p \in ParticipantsOf(user) : p.wspRole = LastRole(user)

\* what remains of C38: it holds where no team that takes part has the id of
\* a member
C38_ApartFromSharedIds == NoSharedIds => C38_LastBucketWins

\* populate has returned for a project with a user among the maintainers and
\* the viewers who took no part before: one addition, the roles maintain and
\* then view, and the user is left with view
C38_Reached ==
    /\ step = "ws_populate"
    /\ ~use_teams
    /\ err = "none"
    /\ NoSharedIds
    /\ \E user \in InSeveralBuckets :
          /\ Cardinality(AdditionsOf(user)) = 1
          /\ RolesSet = <<"maintain", "view">>
          /\ \E p \in ParticipantsOf(user) : p.wspRole = "view"

\* populate for such a project in a workspace where a team with the member
\* id of the user takes part: the user is left without a participant, or
\* populate has raised
C38_ReachedShared ==
    /\ step = "ws_populate"
    /\ ~use_teams
    /\ ~NoSharedIds
    /\ \E user \in InSeveralBuckets : err # "none" \/ ParticipantsOf(user) = {}

----------------------------------------------------------------------------
(* C39: a workspace nobody may launch in *)

\* the configured users of the project being built, or its configured teams
\* in teams mode, have no role that may launch
NoLauncherDesired ==
    IF use_teams
    THEN \A i \in DOMAIN teamids[projects[cur].name] :
             teamids[projects[cur].name][i][2] \notin launcher_roles
    ELSE ~LaunchConfigured

\* the requests of the run that build compute environments in the workspace
\* being built: creations of environments, credentials and resource labels
\* and reads of the secret of its stack
BuildRequests ==
    {i \in DOMAIN log :
       \/ /\ log[i].ws = ws_id
          /\ \/ Is(log[i], "POST", "/compute-envs")
             \/ Is(log[i], "POST", "/compute-envs/primary")
             \/ Is(log[i], "POST", "/credentials")
             \/ Is(log[i], "POST", "/labels")
       \/ /\ Is(log[i], "AWS", "get_secret_value")
          /\ log[i].name =
                get_cfn_stack_outputs(projects[cur].name).TowerForgeServiceUserAccessKeySecretArn}

\* C39: while and after a workspace without a desired launcher is built,
\* whoever takes part in it, the run has asked for no environment, no
\* credentials and no label to be created in it and has read no secret for
\* it, and cleanup has asked to delete every environment the workspace lists
C39_NoLaunchersNoEnvs ==
    (InWorkspace /\ ws_id # None /\ NoLauncherDesired) =>
        /\ BuildRequests = {}
        /\ step # "ws_compute"
        /\ step = "ws_cleanup" =>
              DeleteRequested = {ce.id : ce \in Range(EnvsBefore)}

\* cleanup has run in a workspace without a desired launcher that lists an
\* environment of the current version, and has asked to delete it
C39_Witness ==
    /\ step = "ws_cleanup"
    /\ NoLauncherDesired
    /\ \E ce \in Range(EnvsBefore) : Tagged(ce) /\ ce.id \in DeleteRequested
    /\ BuildRequests = {}

\* the workspace without a desired launcher has an owner among its
\* participants and has been built without compute environments
C39_ReachedWithOwner ==
    /\ step = "ws_no_launchers"
    /\ NoLauncherDesired
    /\ \E p \in Range(Participants) : p.wspRole = "owner"
    /\ BuildRequests = {}

----------------------------------------------------------------------------
(* C40: what a second run removes *)

\* the requests of the second run that ask for a removal
Removals == {i \in DOMAIN log : log[i].method = "DELETE"}

\* C40: in a second run on what a completed first run left, with the same
\* configuration, every participant the first run left is there with the
\* role it had, every member of a team is there, every compute environment
\* is there, and a removal is asked only of an environment that stays
C40_SecondRunRemovesNothing ==
    first # <<>> =>
        /\ Range(first.tower.participants) \subseteq Range(tower.participants)
        /\ \A p \in Range(tower.participants), q \in Range(first.tower.participants) :
              (p.wsId = q.wsId /\ p.participantId = q.participantId) =>
                  p.wspRole = q.wspRole
        /\ Range(first.tower.teamMembers) \subseteq Range(tower.teamMembers)
        /\ Range(first.tower.computeEnvs) \subseteq Range(tower.computeEnvs)
        /\ \A i \in Removals :
              /\ Is(log[i], "DELETE", "/compute-envs")
              /\ \E ce \in Range(tower.computeEnvs) : ce.id = log[i].id

\* the second run has ended, having set roles and listed the environments of
\* a workspace; the first run had left participants and compute environments
C40_Witness ==
    /\ first # <<>>
    /\ pc = "done"
    /\ first.tower.participants # <<>>
    /\ first.tower.computeEnvs # <<>>
    /\ \E i \in DOMAIN log : Is(log[i], "PUT", "/participants/role")
    /\ \E i \in DOMAIN log : Is(log[i], "GET", "/compute-envs")

\* the second run has asked once more for the removal of an environment in
\* use, which stays
C40_ReachedInUse ==
    /\ first # <<>>
    /\ \E i \in Removals : \E ce \in Range(tower.computeEnvs) :
          ce.id = log[i].id /\ ce.activeJobs

\* the second run has ended in teams mode with members in a team
C40_ReachedTeams ==
    /\ first # <<>>
    /\ pc = "done"
    /\ use_teams
    /\ tower.teamMembers # <<>>

====
